---- MODULE Spec2Model ----
(***************************************************************************)
(* Movesense ECG/IMU toolkit: the multi-device extraction scheduler        *)
(* (ExtractionThread.run_extraction in gui/main_window.py) and the         *)
(* sequential driver (extract_all_sensors in extraction/extractor.py).     *)
(*                                                                         *)
(* The scheduler runs concurrency_limit asyncio tasks (worker) on one      *)
(* event loop: a task runs alone from one await to the next.  The list     *)
(* found_sensor_ids is shared with the GUI thread, which rewrites it on    *)
(* every scan, at any moment.  The tasks are anonymous: the state of the    *)
(* pool is the bag of the tasks' local states.                             *)
(***************************************************************************)
EXTENDS Integers, Sequences, FiniteSets, Bags, TLC

\* Number of sensors handed to the run (len(self.sensor_list)).
NumSensors == 2

\* Longest sensor list handed to the sequential driver.
MaxList == 3

\* self.concurrency_limit = 4
concurrency_limit == 4

\* max_consecutive_misses = 1 in run_ble_client
max_consecutive_misses == 1

Sensors == 1 .. NumSensors

\* last_sensor = None
NoSensor == 0

VARIABLES
    found_sensor_ids,   \* indices of sensor_list whose id is in the shared found list
    completed,          \* self.completed
    busy,               \* self.busy
    pending,            \* the local set pending of run_extraction
    semaphore,          \* free permits of the asyncio.Semaphore
    workers,            \* bag of the worker tasks' local states (see NewWorker)
    signal,             \* the last Qt signal emitted by the thread (with history fields)
    seq_list,           \* sensor_list handed to extract_all_sensors
    seq_i,              \* position of its for loop
    seq_pc,             \* position inside extract_all_sensors
    seq_calls,          \* history: the ids extract_sensor was invoked for, in order
    ble_pc,             \* position inside the connected part of run_ble_client
    current_log_id,     \* current_log_id of run_ble_client
    consecutive_misses, \* consecutive_misses of run_ble_client
    success_flag,       \* success_flag of run_ble_client
    miss_limit,         \* the threshold of the drain loop (max_consecutive_misses)
    disconnected_event, \* disconnected_event.is_set()
    queue,              \* the asyncio.Queue of the session: the items put by the handler
    inbound,            \* history: the notification each queued item was made from
    log_file,           \* the bytes of the file fetch_log has open
    waited,             \* time units the current wait_for has waited
    flag_in_wait,       \* history: the event was set while the current wait had time left
    outcome,            \* history: how the last fetch_log call ended
    returns,            \* history: the pairs <<outcome, returned value>> of the calls so far
    commands,           \* history: the byte strings written to the command channel
    open_logs,          \* log ids the device was asked for and has not sent the marker of
    sent_for,           \* for each item of the queue, the log id the device sent it for
    answered,           \* history: <<log id of the file, log id of the item>> of each item used
    raw_folder,         \* the .sbem files of the sensor in raw_folder
    handed,             \* the files the worker hands to convert_sbem
    devices,            \* the names of the devices discover() returned
    cmd_log_id,         \* log_id handed to fetch_log
    cmd_pc,             \* position of fetch_log around the command write
    cmd_written,        \* the byte strings fetch_log wrote to the command channel
    frags,              \* notifications of one log, in the order the device made them
    order,              \* the order in which they are delivered
    perm_pc,            \* position of the delivery
    perm_k,             \* number of notifications delivered
    file_original,      \* the file after the delivery in the original order
    file_permuted,      \* the file during the delivery in the other order
    data_chunks,        \* converter.data_chunks: the list object the global is bound to
    lists,              \* the list objects made by processSBEM, by the thread that made them
    conv_pc,            \* position of each conversion thread in processSBEM/convert_sbem
    chunk_index,        \* chunk_index of each conversion thread
    sbem_chunks,        \* number of data chunks in the file of each conversion thread
    rows,               \* rows of each conversion thread: the list object returned
    csv,                \* the records each conversion thread handed to pd.json_normalize
    csv_saved,          \* whether df.to_csv wrote the CSV file of each conversion
    csv_path,           \* what convert_sbem returned to the caller of each conversion
    branch,             \* the branch the caller took on csv_path
    variant,            \* which converter.py decodes (the two differ in parseDataChunk)
    sbem,               \* the bytes of the file processSBEM has open
    src_chunks,         \* history: the chunks the file was written from
    sbem_pos,           \* f.tell()
    sbem_pc,            \* position of processSBEM
    sbem_index,         \* chunk_index of processSBEM
    sbem_rows,          \* data_chunks of this call
    sbem_groups,        \* the token lists parseGroupLine returned in this call
    decoded,            \* history: the (id, payload) pairs the chunk loop has read
    last_read,          \* history: the readId and readLen calls of the last loop turn
    grp_tokens,         \* tokens the line was written from
    grp_line,           \* line handed to parseGroupLine
    grp_pc,             \* position of parseGroupLine
    token_values,       \* token_values of parseGroupLine
    sensor_entries,     \* the status text of each entry of MainWindow.sensor_entries
    window_found,       \* MainWindow.found_sensor_ids, as entries of sensor_list
    extraction_threads, \* the ExtractionThread objects started and still running
    posted              \* the signals emitted by the threads and not yet handled

schedVars == <<found_sensor_ids, completed, busy, pending, semaphore, workers, signal>>

seqVars == <<seq_list, seq_i, seq_pc, seq_calls>>

fetchVars == <<ble_pc, current_log_id, consecutive_misses, success_flag, miss_limit,
               disconnected_event, queue, inbound, log_file, waited, flag_in_wait,
               outcome, returns, commands, open_logs, sent_for, answered, raw_folder,
               handed, devices>>

cmdVars == <<cmd_log_id, cmd_pc, cmd_written>>

permVars == <<frags, order, perm_pc, perm_k, file_original, file_permuted>>

convVars == <<data_chunks, lists, conv_pc, chunk_index, sbem_chunks, rows, csv, csv_saved, csv_path, branch>>

sbemVars == <<variant, sbem, src_chunks, sbem_pos, sbem_pc, sbem_index, sbem_rows,
              sbem_groups, decoded, last_read>>

grpVars == <<grp_tokens, grp_line, grp_pc, token_values>>

guiVars == <<sensor_entries, window_found, extraction_threads, posted>>

vars == <<schedVars, seqVars, fetchVars, cmdVars, permVars, convVars, sbemVars,
          grpVars, guiVars>>

nonSchedVars == <<seqVars, fetchVars, cmdVars, permVars, convVars, sbemVars, grpVars,
                  guiVars>>

nonSeqVars == <<schedVars, fetchVars, cmdVars, permVars, convVars, sbemVars, grpVars,
                guiVars>>

nonFetchVars == <<schedVars, seqVars, cmdVars, permVars, convVars, sbemVars, grpVars,
                  guiVars>>

nonCmdVars == <<schedVars, seqVars, fetchVars, permVars, convVars, sbemVars, grpVars,
                guiVars>>

nonPermVars == <<schedVars, seqVars, fetchVars, cmdVars, convVars, sbemVars, grpVars,
                 guiVars>>

nonConvVars == <<schedVars, seqVars, fetchVars, cmdVars, permVars, sbemVars, grpVars,
                 guiVars>>

nonSbemVars == <<schedVars, seqVars, fetchVars, cmdVars, permVars, convVars, grpVars,
                 guiVars>>

nonGrpVars == <<schedVars, seqVars, fetchVars, cmdVars, permVars, convVars, sbemVars,
                guiVars>>

nonGuiVars == <<schedVars, seqVars, fetchVars, cmdVars, permVars, convVars, sbemVars,
                grpVars>>

\* No main window is being followed.
GuiIdle ==
    /\ sensor_entries = <<>>
    /\ window_found = {}
    /\ extraction_threads = <<>>
    /\ posted = <<>>

\* workers = [asyncio.create_task(worker()) for _ in range(self.concurrency_limit)]
NumWorkers == concurrency_limit

\* semaphore = asyncio.Semaphore(self.concurrency_limit)
SemaphoreWidth == concurrency_limit

\* The local state of a worker task as it is created:
\*   pc                  its position: "select" (top of the loop, or in asyncio.sleep
\*                       before it), "check", "acquire", "discover", "drain",
\*                       "convert", "done"
\*   last_sensor         last_sensor (= sensor_index during a cycle)
\*   log_attempt         flag_container['log_attempt']
\*   fetch_sent          history: its own session logged FETCH_LOG in this cycle
\*   success_flag        success_flag of its run_ble_client call
\*   consecutive_misses  consecutive_misses of its run_ble_client call
NewWorker == [pc |-> "select", last_sensor |-> NoSensor, log_attempt |-> FALSE,
              fetch_sent |-> FALSE, success_flag |-> FALSE, consecutive_misses |-> 0]

\* The tasks of the pool, each local state once.
Pool == BagToSet(workers)

\* The pool with the task in state w moved to state w2.
Moved(w, w2) == (workers (-) SetToBag({w})) (+) SetToBag({w2})

\* The number of tasks of the pool whose state is in the set S.
RECURSIVE Count(_)
Count(S) ==
    IF S = {} THEN 0
    ELSE LET w == CHOOSE x \in S : TRUE
         IN  CopiesIn(w, workers) + Count(S \ {w})

NoSignal == [kind |-> "none", idx |-> NoSensor, success |-> FALSE,
             log_attempt_sent |-> FALSE, fetch_sent |-> FALSE, excluded |-> NoSensor,
             conversion |-> "none"]

\* self.extractionStarted.emit(sensor_index); excluded is the history of the
\* selection: the index the last-sensor rule removed from the eligible list.
StartedSignal(i, x) == [kind |-> "started", idx |-> i, success |-> FALSE,
                        log_attempt_sent |-> FALSE, fetch_sent |-> FALSE, excluded |-> x,
                        conversion |-> "none"]

\* self.extractionResult.emit(sensor_index, success, log_attempt_sent);
\* conversion is the history of the cycle: how the conversion of the files went.
ResultSignal(i, ok, flag, own) == [kind |-> "result", idx |-> i, success |-> ok,
                                   log_attempt_sent |-> flag, fetch_sent |-> own,
                                   excluded |-> NoSensor, conversion |-> "none"]

\* A worker between the selection of a sensor and the end of its cycle on it.
InCycle(w) == w.pc \in {"check", "acquire", "discover", "drain", "convert"}

\* A worker inside "async with semaphore".
InSemaphore(w) == w.pc \in {"discover", "drain"}

\* A worker whose FlagHandler is attached to the root logger
\* (logger.addHandler ... finally: logger.removeHandler).
HandlerAttached(w) == w.pc \in {"discover", "drain"}

\* LoopFree with conv.convert_sbem called in the worker itself, not through
\* loop.run_in_executor: the converting task keeps the loop.
LoopFreeInlineConvert(w) == \A v \in Pool : v.pc \in {"check", "convert"} => v = w

\* One event loop: a task that has not reached an await keeps the loop.
LoopFree(w) == \A v \in Pool : v.pc = "check" => v = w

(***************************************************************************)
(* The scheduler: ExtractionThread.run_extraction                          *)
(***************************************************************************)

\* Eligible without the test "i not in self.busy".
EligibleIgnoringBusy == {i \in Sensors : ~completed[i] /\ i \in found_sensor_ids}

\* Eligible built over range(len(self.sensor_list) - 1).
EligibleOffByOne ==
    {i \in 1 .. NumSensors - 1 : ~completed[i] /\ i \notin busy /\ i \in found_sensor_ids}

\* eligible = [i for i in range(len(self.sensor_list)) if not self.completed[i]
\*             and i not in self.busy and (self.sensor_list[i] in self.found_sensor_ids)]
Eligible == {i \in Sensors : ~completed[i] /\ i \notin busy /\ i \in found_sensor_ids}

\* Excluded without the removal of last_sensor.
ExcludedNever(last) == NoSensor

\* The index removed by
\*   if last_sensor is not None and len(eligible) > 1 and last_sensor in eligible
Excluded(last) ==
    IF last # NoSensor /\ Cardinality(Eligible) > 1 /\ last \in Eligible
    THEN last ELSE NoSensor

\* eligible after eligible.remove(last_sensor)
Candidates(last) == Eligible \ {Excluded(last)}

\* random.choice(eligible): any element
Choice(S) == S

\* self.busy.add(sensor_index)
MarkBusy(i) == busy \cup {i}

\* The top of the worker loop when a sensor is chosen: it is marked busy under the
\* selection lock, last_sensor is set and extractionStarted is emitted.
SelectSensor(w, i) ==
    /\ w.pc = "select"
    /\ LoopFree(w)
    /\ i \in Choice(Candidates(w.last_sensor))
    /\ busy' = MarkBusy(i)
    /\ signal' = StartedSignal(i, Excluded(w.last_sensor))
    /\ workers' = Moved(w, [w EXCEPT !.pc = "check", !.last_sensor = i])
    /\ UNCHANGED <<found_sensor_ids, completed, pending, semaphore, nonSchedVars>>

\* LoopExit as "break whenever nothing is eligible".
LoopExitAlways == TRUE

\* if not pending: break
LoopExit == pending = {}

\* The top of the worker loop when the eligible list is empty: break when LoopExit,
\* else sleep(1) and continue.
SelectNone(w) ==
    /\ w.pc = "select"
    /\ LoopFree(w)
    /\ Candidates(w.last_sensor) = {}
    /\ workers' = Moved(w, [w EXCEPT !.pc = IF LoopExit THEN "done" ELSE "select"])
    /\ UNCHANGED <<found_sensor_ids, completed, busy, pending, semaphore, signal, nonSchedVars>>

\* async with semaphore: a permit is taken, flag_container = {'log_attempt': False},
\* the FlagHandler is added and extract_sensor is entered (it waits in discover()).
\* Without a free permit the worker waits in acquire().
EnterSemaphore(w) ==
    IF semaphore > 0
    THEN /\ semaphore' = semaphore - 1
         /\ workers' = Moved(w, [w EXCEPT !.pc = "discover", !.log_attempt = FALSE,
                                          !.fetch_sent = FALSE, !.success_flag = FALSE,
                                          !.consecutive_misses = 0])
    ELSE /\ semaphore' = semaphore
         /\ workers' = Moved(w, [w EXCEPT !.pc = "acquire"])

\* The state of a worker that goes on with its loop after a cycle.
NextCycle(w) == [NewWorker EXCEPT !.last_sensor = w.last_sensor]

\* if sensor_id not in self.found_sensor_ids: emit(False, False), discard, sleep(1),
\* else the session is entered through the semaphore.
Check(w) ==
    /\ w.pc \in {"check", "acquire"}
    /\ LoopFree(w)
    /\ w.pc = "acquire" => semaphore > 0
    /\ IF w.pc = "acquire" \/ w.last_sensor \in found_sensor_ids
       THEN /\ EnterSemaphore(w)
            /\ UNCHANGED <<busy, signal>>
       ELSE /\ signal' = ResultSignal(w.last_sensor, FALSE, FALSE, FALSE)
            /\ busy' = busy \ {w.last_sensor}
            /\ workers' = Moved(w, NextCycle(w))
            /\ UNCHANGED semaphore
    /\ UNCHANGED <<found_sensor_ids, completed, pending, nonSchedVars>>

\* CycleFailed without self.busy.discard(sensor_index).
CycleFailedKeepsBusy(w) ==
    /\ signal' = ResultSignal(w.last_sensor, FALSE, w.log_attempt, w.fetch_sent)
    /\ busy' = busy
    /\ workers' = Moved(w, [NewWorker EXCEPT !.last_sensor = w.last_sensor])
    /\ UNCHANGED <<completed, pending>>

\* The else branch at the end of the cycle: emit(False, log_attempt_sent), discard
\* from busy, sleep(0.5) and go on with the loop.
CycleFailed(w) ==
    /\ signal' = ResultSignal(w.last_sensor, FALSE, w.log_attempt, w.fetch_sent)
    /\ busy' = busy \ {w.last_sensor}
    /\ workers' = Moved(w, NextCycle(w))
    /\ UNCHANGED <<completed, pending>>

\* CycleCompleted without pending.discard(sensor_index).
CycleCompletedKeepsPending(w, conversion) ==
    /\ signal' = [ResultSignal(w.last_sensor, TRUE, w.log_attempt, w.fetch_sent)
                    EXCEPT !.conversion = conversion]
    /\ completed' = [completed EXCEPT ![w.last_sensor] = TRUE]
    /\ pending' = pending
    /\ busy' = busy \ {w.last_sensor}
    /\ workers' = Moved(w, NextCycle(w))

\* emit(True, log_attempt_sent); completed, pending and busy are updated under the
\* selection lock; sleep(0.5)
CycleCompleted(w, conversion) ==
    /\ signal' = [ResultSignal(w.last_sensor, TRUE, w.log_attempt, w.fetch_sent)
                    EXCEPT !.conversion = conversion]
    /\ completed' = [completed EXCEPT ![w.last_sensor] = TRUE]
    /\ pending' = pending \ {w.last_sensor}
    /\ busy' = busy \ {w.last_sensor}
    /\ workers' = Moved(w, NextCycle(w))

\* if sensor_extracted: the files are converted on the executor (an await) when
\* glob finds some, and the cycle completes at once when it finds none.
CycleSucceeded(w) ==
    \E matching_files \in BOOLEAN :
        IF matching_files
        THEN /\ workers' = Moved(w, [w EXCEPT !.pc = "convert", !.success_flag = FALSE,
                                              !.consecutive_misses = 0])
             /\ UNCHANGED <<signal, completed, pending, busy>>
        ELSE CycleCompleted(w, "no file")

\* SessionOver with the permit kept.
SessionOverKeepsPermit(w, result) ==
    /\ semaphore' = semaphore
    /\ IF result THEN CycleSucceeded(w) ELSE CycleFailed(w)
    /\ UNCHANGED <<found_sensor_ids, nonSchedVars>>

\* extract_sensor is over with result (False also for a raised exception): the
\* handler is removed, the permit released, then the cycle's two branches.
SessionOver(w, result) ==
    /\ semaphore' = semaphore + 1
    /\ IF result THEN CycleSucceeded(w) ELSE CycleFailed(w)
    /\ UNCHANGED <<found_sensor_ids, nonSchedVars>>

\* SessionRaised without the except clause: the exception ends the worker task.
SessionRaisedUncaught(w) ==
    /\ semaphore' = semaphore + 1
    /\ workers' = Moved(w, [w EXCEPT !.pc = "done"])
    /\ UNCHANGED <<found_sensor_ids, completed, busy, pending, signal, nonSchedVars>>

\* except Exception as e: extraction_success = False
SessionRaised(w) == SessionOver(w, FALSE)

\* run_ble_client: no discovered device name ends with the id: return False
BleNotFound(w) ==
    /\ w.pc = "discover"
    /\ LoopFree(w)
    /\ SessionOver(w, FALSE)

\* run_ble_client: BleakClient(...).__aenter__ or start_notify raises
BleFault(w) ==
    /\ w.pc = "discover"
    /\ LoopFree(w)
    /\ SessionRaised(w)

\* run_ble_client: connected and subscribed; current_log_id = 1, consecutive_misses = 0
BleConnected(w) ==
    /\ w.pc = "discover"
    /\ LoopFree(w)
    /\ workers' = Moved(w, [w EXCEPT !.pc = "drain"])
    /\ UNCHANGED <<found_sensor_ids, completed, busy, pending, semaphore, signal, nonSchedVars>>

\* FlagHandler.emit on the record "Sending FETCH_LOG command for log ...": the
\* record goes to every handler of the root logger.
FlagHandlerEmit(v) == IF HandlerAttached(v) THEN [v EXCEPT !.log_attempt = TRUE] ELSE v

\* One fetch_log call of the drain loop. logged: the FETCH_LOG line was logged
\* (open() did not fail); complete: the EOF marker arrived.
FetchLog(w) ==
    /\ w.pc = "drain"
    /\ LoopFree(w)
    /\ w.consecutive_misses < max_consecutive_misses
    /\ \E logged \in BOOLEAN, complete \in BOOLEAN :
          /\ complete => logged
          /\ LET w2 == [w EXCEPT !.fetch_sent = @ \/ logged,
                                 !.success_flag = @ \/ complete,
                                 !.consecutive_misses = IF complete THEN 0 ELSE @ + 1]
             IN  workers' = IF logged THEN BagOfAll(FlagHandlerEmit, Moved(w, w2))
                            ELSE Moved(w, w2)
    /\ UNCHANGED <<found_sensor_ids, completed, busy, pending, semaphore, signal, nonSchedVars>>

\* The drain loop ends (miss threshold reached or disconnected), HELLO is sent
\* and run_ble_client returns success_flag, unless leaving the client raises.
DrainOver(w) ==
    /\ w.pc = "drain"
    /\ LoopFree(w)
    /\ \E disconnected \in BOOLEAN, raised \in BOOLEAN :
          /\ disconnected \/ w.consecutive_misses >= max_consecutive_misses
          /\ IF raised THEN SessionRaised(w) ELSE SessionOver(w, w.success_flag)

\* How the conversion of a file ends for the worker: convert_sbem returns (it
\* returns None, the branch "did not produce a CSV"), or the call raises
\* (os.makedirs is outside every try of convert_sbem).
ConversionOutcomes == {"no csv", "raised"}

\* AfterConversion without "except Exception" around the conversion of a file:
\* the cycle does not reach its emit(True, ...).
AfterConversionUncaught(w, ended) ==
    IF ended = "raised" THEN CycleFailed(w) ELSE CycleCompleted(w, ended)

\* The "for file_path in matching_files" loop is over: each outcome was logged,
\* "except Exception" included, and the cycle goes on to emit(True, ...).
AfterConversion(w, ended) == CycleCompleted(w, ended)

\* await loop.run_in_executor(executor, conv.convert_sbem, ...) is over for every
\* file, whatever its outcome
ConvertOver(w) ==
    /\ w.pc = "convert"
    /\ LoopFree(w)
    /\ \E ended \in ConversionOutcomes : AfterConversion(w, ended)
    /\ UNCHANGED <<found_sensor_ids, semaphore, nonSchedVars>>

\* MainWindow.update_device_list, on the GUI thread: clear(), then append
Scan ==
    /\ \E f \in SUBSET Sensors : f # found_sensor_ids /\ found_sensor_ids' = f
    /\ UNCHANGED <<completed, busy, pending, semaphore, workers, signal, nonSchedVars>>

SeqIdle ==
    /\ seq_list = <<>>
    /\ seq_i = 0
    /\ seq_pc = "idle"
    /\ seq_calls = <<>>

\* No session of run_ble_client is being followed.
FetchIdle ==
    /\ ble_pc = "idle"
    /\ current_log_id = 0
    /\ consecutive_misses = 0
    /\ success_flag = FALSE
    /\ miss_limit = 0
    /\ disconnected_event = FALSE
    /\ queue = <<>>
    /\ inbound = <<>>
    /\ log_file = <<>>
    /\ waited = 0
    /\ flag_in_wait = FALSE
    /\ outcome = "none"
    /\ returns = {}
    /\ commands = <<>>
    /\ open_logs = {}
    /\ sent_for = <<>>
    /\ answered = {}
    /\ raw_folder = {}
    /\ handed = {}
    /\ devices = <<>>

\* No single fetch_log call is being followed.
CmdIdle ==
    /\ cmd_log_id = 0
    /\ cmd_pc = "idle"
    /\ cmd_written = <<>>

\* No delivery of notifications in two orders is being followed.
PermIdle ==
    /\ frags = <<>>
    /\ order = <<>>
    /\ perm_pc = "idle"
    /\ perm_k = 0
    /\ file_original = <<>>
    /\ file_permuted = <<>>

\* No file is being decoded.
SbemIdle ==
    /\ variant = "none"
    /\ sbem = <<>>
    /\ src_chunks = <<>>
    /\ sbem_pos = 0
    /\ sbem_pc = "idle"
    /\ sbem_index = 0
    /\ sbem_rows = <<>>
    /\ sbem_groups = <<>>
    /\ decoded = <<>>
    /\ last_read = <<>>

\* No group line is being parsed.
GrpIdle ==
    /\ grp_tokens = <<>>
    /\ grp_line = <<>>
    /\ grp_pc = "idle"
    /\ token_values = <<>>

\* No conversion is running.
ConvIdle ==
    /\ data_chunks = 0
    /\ lists = <<>>
    /\ conv_pc = <<>>
    /\ chunk_index = <<>>
    /\ sbem_chunks = <<>>
    /\ rows = <<>>
    /\ csv = <<>>
    /\ csv_saved = <<>>
    /\ csv_path = <<>>
    /\ branch = <<>>

\* ExtractionThread.__init__ and the first lines of run_extraction
Init ==
    /\ found_sensor_ids \in SUBSET Sensors
    /\ completed = [i \in Sensors |-> FALSE]
    /\ busy = {}
    /\ pending = Sensors
    /\ semaphore = SemaphoreWidth
    /\ workers = [w \in {NewWorker} |-> NumWorkers]
    /\ signal = NoSignal
    /\ GuiIdle
    /\ SeqIdle
    /\ FetchIdle
    /\ CmdIdle
    /\ PermIdle
    /\ ConvIdle
    /\ SbemIdle
    /\ GrpIdle

\* One step of one worker task.
WorkerStep ==
    \/ \E w \in Pool : \E i \in Sensors : SelectSensor(w, i)
    \/ \E w \in Pool : SelectNone(w)
    \/ \E w \in Pool : Check(w)
    \/ \E w \in Pool : BleNotFound(w)
    \/ \E w \in Pool : BleFault(w)
    \/ \E w \in Pool : BleConnected(w)
    \/ \E w \in Pool : FetchLog(w)
    \/ \E w \in Pool : DrainOver(w)
    \/ \E w \in Pool : ConvertOver(w)

Next ==
    \/ WorkerStep
    \/ Scan

Spec == Init /\ [][Next]_vars

(***************************************************************************)
(* The sequential driver: extract_all_sensors                              *)
(***************************************************************************)

\* No scheduler run is going on.
SchedIdle ==
    /\ found_sensor_ids = {}
    /\ completed = [i \in Sensors |-> FALSE]
    /\ busy = {}
    /\ pending = {}
    /\ semaphore = SemaphoreWidth
    /\ workers = EmptyBag
    /\ signal = NoSignal

\* The sensor lists handed to the driver.
SensorLists == UNION {[1 .. n -> Sensors] : n \in 1 .. MaxList}

\* for sensor_id in sensor_list: await extract_sensor(sensor_id, raw_folder)
\* (run_ble_client is entered and waits in discover()); the loop ends after the
\* last element.
SeqCall ==
    /\ seq_pc = "loop"
    /\ IF seq_i > Len(seq_list)
       THEN /\ seq_pc' = "done"
            /\ UNCHANGED seq_calls
       ELSE /\ seq_calls' = Append(seq_calls, seq_list[seq_i])
            /\ seq_pc' = "discover"
    /\ UNCHANGED <<seq_list, seq_i, nonSeqVars>>

\* run_ble_client: no device name ends with the id: "not found", return False
SeqNotFound ==
    /\ seq_pc = "discover"
    /\ seq_pc' = "sleep"
    /\ UNCHANGED <<seq_list, seq_i, seq_calls, nonSeqVars>>

\* run_ble_client: found = True; async with BleakClient(...) is entered
SeqFound ==
    /\ seq_pc = "discover"
    /\ seq_pc' = "connect"
    /\ UNCHANGED <<seq_list, seq_i, seq_calls, nonSeqVars>>

\* What becomes of an exception raised by BleakClient.__aenter__ or start_notify:
\* neither run_ble_client nor extract_sensor nor extract_all_sensors catches it.
TransportFault == "raised"

\* connecting or subscribing raises
SeqTransportFault ==
    /\ seq_pc = "connect"
    /\ seq_pc' = TransportFault
    /\ UNCHANGED <<seq_list, seq_i, seq_calls, nonSeqVars>>

\* connected and subscribed: the drain loop runs
SeqConnected ==
    /\ seq_pc = "connect"
    /\ seq_pc' = "drain"
    /\ UNCHANGED <<seq_list, seq_i, seq_calls, nonSeqVars>>

\* the drain loop ends on a fetch timeout (fetch_log returns False, which it does
\* for its own exceptions too) and run_ble_client returns success_flag
SeqDrained ==
    /\ seq_pc = "drain"
    /\ seq_pc' = "sleep"
    /\ UNCHANGED <<seq_list, seq_i, seq_calls, nonSeqVars>>

\* await asyncio.sleep(1) is over: next element
SeqSleepOver ==
    /\ seq_pc = "sleep"
    /\ seq_pc' = "loop"
    /\ seq_i' = seq_i + 1
    /\ UNCHANGED <<seq_list, seq_calls, nonSeqVars>>

\* asyncio.run(extract_all_sensors(sensor_list, raw_folder))
SeqInit ==
    /\ SchedIdle
    /\ GuiIdle
    /\ FetchIdle
    /\ CmdIdle
    /\ PermIdle
    /\ ConvIdle
    /\ SbemIdle
    /\ GrpIdle
    /\ seq_list \in SensorLists
    /\ seq_i = 1
    /\ seq_pc = "loop"
    /\ seq_calls = <<>>

SeqNext ==
    \/ SeqCall
    \/ SeqNotFound
    \/ SeqFound
    \/ SeqTransportFault
    \/ SeqConnected
    \/ SeqDrained
    \/ SeqSleepOver

SpecSeq == SeqInit /\ [][SeqNext]_vars

(***************************************************************************)
(* Conversions on the executor: convert_sbem, processSBEM                  *)
(***************************************************************************)

\* Conversions that run at the same time on the ThreadPoolExecutor.
NumConversions == 2

\* Most data chunks in one file.
MaxChunks == 2

ConvThreads == 1 .. NumConversions

\* The list object bound to converter.data_chunks when the module is imported.
ModuleList == 0

\* The record parseDataChunk appends for chunk k of the file of thread t.
ChunkRecord(t, k) == <<t, k>>

\* The records of the file of thread t, in chunk order.
FileRecords(t) == [k \in 1 .. sbem_chunks[t] |-> ChunkRecord(t, k - 1)]

\* processSBEM, first lines: global data_chunks; data_chunks = []; chunk_index = 0
ProcessSBEMClear(t) ==
    /\ conv_pc[t] = "submitted"
    /\ data_chunks' = t
    /\ lists' = [lists EXCEPT ![t] = <<>>]
    /\ chunk_index' = [chunk_index EXCEPT ![t] = 0]
    /\ conv_pc' = [conv_pc EXCEPT ![t] = "parse"]
    /\ UNCHANGED <<sbem_chunks, rows, csv, csv_saved, csv_path, branch, nonConvVars>>

\* One turn of the while loop on a data chunk: the chunk is read from the file
\* and parseDataChunk appends its record to the list the global names now.
ParseDataChunk(t) ==
    /\ conv_pc[t] = "parse"
    /\ chunk_index[t] < sbem_chunks[t]
    /\ lists' = [lists EXCEPT ![data_chunks] = Append(@, ChunkRecord(t, chunk_index[t]))]
    /\ chunk_index' = [chunk_index EXCEPT ![t] = @ + 1]
    /\ UNCHANGED <<data_chunks, conv_pc, sbem_chunks, rows, csv, csv_saved, csv_path, branch, nonConvVars>>

\* readId returns None at the end of the file: break; return data_chunks, the
\* list the global names now
ProcessSBEMReturn(t) ==
    /\ conv_pc[t] = "parse"
    /\ chunk_index[t] = sbem_chunks[t]
    /\ rows' = [rows EXCEPT ![t] = data_chunks]
    /\ conv_pc' = [conv_pc EXCEPT ![t] = "returned"]
    /\ UNCHANGED <<data_chunks, lists, chunk_index, sbem_chunks, csv, csv_saved, csv_path, branch, nonConvVars>>

\* csv_filename = os.path.join(output_dir, base_name + ".csv") of thread t
CsvFilename(t) == <<"csv", t>>

\* The value None, where a path is expected.
NoPath == <<>>

\* The value of the call convert_sbem(file_path, output_dir): "return" without
\* a value when no row was parsed or json_normalize raised, and the end of the
\* function body after df.to_csv, whether it saved or raised: None in each.
ConvertSbemValue(t, parsed, saved) == NoPath

\* convert_sbem after processSBEM: the rows are read (len(rows), json_normalize)
\* and, unless there is none, written as CSV; df.to_csv saves the file or raises.
ConvertSbemWrite(t) ==
    /\ conv_pc[t] = "returned"
    /\ csv' = [csv EXCEPT ![t] = lists[rows[t]]]
    /\ \E saved \in BOOLEAN :
           /\ lists[rows[t]] = <<>> => ~saved
           /\ csv_saved' = [csv_saved EXCEPT ![t] = saved]
           /\ csv_path' = [csv_path EXCEPT ![t] =
                               ConvertSbemValue(t, lists[rows[t]] # <<>>, saved)]
    /\ conv_pc' = [conv_pc EXCEPT ![t] = "done"]
    /\ UNCHANGED <<data_chunks, lists, chunk_index, sbem_chunks, rows, branch, nonConvVars>>

\* os.path.exists(csv_path): the file df.to_csv saved.
Exists(t, path) == path = CsvFilename(t) /\ csv_saved[t]

\* The worker (and on_convert) on the value of convert_sbem:
\* "if csv_path and os.path.exists(csv_path)" renames or keeps the CSV file,
\* else logs "Conversion did not produce a CSV".
ConvertSbemOver(t) ==
    /\ conv_pc[t] = "done"
    /\ branch' = [branch EXCEPT ![t] =
                     IF csv_path[t] # NoPath /\ Exists(t, csv_path[t])
                     THEN "renamed or kept" ELSE "did not produce a CSV"]
    /\ conv_pc' = [conv_pc EXCEPT ![t] = "handled"]
    /\ UNCHANGED <<data_chunks, lists, chunk_index, sbem_chunks, rows, csv, csv_saved,
                   csv_path, nonConvVars>>

\* Two workers have handed one file each to the executor
\* (loop.run_in_executor(executor, conv.convert_sbem, file_path, ...)).
ConvInit ==
    /\ SchedIdle
    /\ GuiIdle
    /\ SeqIdle
    /\ FetchIdle
    /\ CmdIdle
    /\ PermIdle
    /\ data_chunks = ModuleList
    /\ lists = [l \in {ModuleList} \cup ConvThreads |-> <<>>]
    /\ conv_pc = [t \in ConvThreads |-> "submitted"]
    /\ chunk_index = [t \in ConvThreads |-> 0]
    /\ sbem_chunks \in [ConvThreads -> 0 .. MaxChunks]
    /\ rows = [t \in ConvThreads |-> ModuleList]
    /\ csv = [t \in ConvThreads |-> <<>>]
    /\ csv_saved = [t \in ConvThreads |-> FALSE]
    /\ csv_path = [t \in ConvThreads |-> NoPath]
    /\ branch = [t \in ConvThreads |-> "none"]
    /\ SbemIdle
    /\ GrpIdle

ConvNext ==
    \/ \E t \in ConvThreads : ProcessSBEMClear(t)
    \/ \E t \in ConvThreads : ParseDataChunk(t)
    \/ \E t \in ConvThreads : ProcessSBEMReturn(t)
    \/ \E t \in ConvThreads : ConvertSbemWrite(t)
    \/ \E t \in ConvThreads : ConvertSbemOver(t)

SpecConv == ConvInit /\ [][ConvNext]_vars

(***************************************************************************)
(* The fetch command: the first lines of fetch_log                         *)
(***************************************************************************)

\* Largest log id of the range handed to fetch_log.
MaxLogId == 300

\* The log ids handed to fetch_log: the small ones and some with a non-zero
\* second, third and fourth byte.
LogIds == (0 .. MaxLogId) \cup {65536, 16777216, 16909060}

\* A value a Python bytearray element can hold.
IsByte(b) == b \in 0 .. 255

\* bytearray(values): ValueError unless every value is in range(0, 256)
Bytearray(values) ==
    IF \A k \in 1 .. Len(values) : IsByte(values[k]) THEN values ELSE "ValueError"

\* command = bytearray([3, 101, log_id, 0, 0, 0])
FetchCommand(log_id) == Bytearray(<<3, 101, log_id, 0, 0, 0>>)

\* fetch_log up to the command write: the command is built and written; the
\* ValueError of bytearray is caught by "except Exception" and nothing is written.
FetchLogCommand ==
    /\ cmd_pc = "start"
    /\ IF FetchCommand(cmd_log_id) = "ValueError"
       THEN /\ cmd_pc' = "error"
            /\ cmd_written' = cmd_written
       ELSE /\ cmd_pc' = "sent"
            /\ cmd_written' = Append(cmd_written, FetchCommand(cmd_log_id))
    /\ UNCHANGED <<cmd_log_id, nonCmdVars>>

\* fetch_log(client, queue, sensor_id, log_id, ...) is called
CmdInit ==
    /\ SchedIdle
    /\ GuiIdle
    /\ SeqIdle
    /\ FetchIdle
    /\ PermIdle
    /\ ConvIdle
    /\ SbemIdle
    /\ GrpIdle
    /\ cmd_log_id \in LogIds
    /\ cmd_pc = "start"
    /\ cmd_written = <<>>

CmdNext == FetchLogCommand

SpecCmd == CmdInit /\ [][CmdNext]_vars

(***************************************************************************)
(* One connected session: the drain loop of run_ble_client and fetch_log   *)
(***************************************************************************)

\* Most log ids one session attempts.
MaxLogs == 3

\* Most items waiting in the queue.
MaxQueue == 1

\* Largest threshold of the drain loop ("max_consecutive_misses = 1  # Adjust as
\* needed").
MaxMissLimit == 2

\* asyncio.wait_for(queue.get(), timeout=10.0)
FetchTimeout == 10

\* The offset fields the device sends: 0, 1 and 256.
OffsetFields == {<<0, 0, 0, 0>>, <<1, 0, 0, 0>>, <<0, 1, 0, 0>>}

\* The payloads the device sends; the empty one is the end-of-file marker.
Payloads == {<<>>, <<5, 6>>}

\* The notifications of the device: type (2 = DATA), client reference, offset,
\* payload.
Notifications == {<<2, 101>> \o o \o b : o \in OffsetFields, b \in Payloads}

\* notification_handler with data[1:].
NotificationHandlerStripsOne(data) == SubSeq(data, 2, Len(data))

\* await queue.put(data[2:])
notification_handler(data) == SubSeq(data, 3, Len(data))

\* DataView.get_uint_32: struct.unpack('<I', ...) of 4 elements from start_index
get_uint_32(array, start_index) ==
    array[start_index + 1] + 256 * array[start_index + 2]
        + 65536 * array[start_index + 3] + 16777216 * array[start_index + 4]

\* payload = item[4:]
PayloadOf(item) == SubSeq(item, 5, Len(item))

\* SeekWrite with the file cut off after the written bytes (f.truncate()).
SeekWriteTruncates(f, offset, payload) ==
    [k \in 1 .. offset + Len(payload) |->
        IF k > offset THEN payload[k - offset]
        ELSE IF k <= Len(f) THEN f[k]
        ELSE 0]

\* f.seek(offset); f.write(payload) on a file opened 'wb': the bytes go to
\* offset .. offset + len - 1, a gap after the old end reads as zeros.
SeekWrite(f, offset, payload) ==
    LET end == offset + Len(payload)
        size == IF end > Len(f) THEN end ELSE Len(f)
    IN  [k \in 1 .. size |->
            IF k > offset /\ k <= end THEN payload[k - offset]
            ELSE IF k <= Len(f) THEN f[k]
            ELSE 0]

\* What fetch_log returns for each way it ends: return True after the marker,
\* return False in "except asyncio.TimeoutError" and in "except Exception", and
\* None when the while loop ends because the event is set.
FetchReturn(out) ==
    CASE out = "Complete" -> "True"
      [] out = "TimedOut" -> "False"
      [] out = "Error" -> "False"
      [] out = "Disconnected" -> "None"

\* MissesAfter without "consecutive_misses = 0".
MissesAfterNoReset(success, misses) == IF success THEN misses ELSE misses + 1

\* if success: consecutive_misses = 0 else: consecutive_misses += 1
MissesAfter(success, misses) == IF success THEN 0 ELSE misses + 1

\* RestartWait with one timeout for the whole fetch.
RestartWaitKeeps(t) == t

\* A new asyncio.wait_for(..., timeout=10.0) starts: nothing waited yet.
RestartWait(t) == 0

\* The file fetch_log opens for log_id: "{timestamp}_{sensor_id}_{log_id}.sbem",
\* with how its fetch ended ("open" until then).
SbemFile(log_id, state) == [session |-> "this", log_id |-> log_id, state |-> state]

\* A file of the same sensor that an earlier session left in raw_folder.
EarlierFile == [session |-> "earlier", log_id |-> 1, state |-> "Complete"]

\* fetch_log ends in the way out ("with open" closes the file): run_ble_client
\* takes its result, counts, goes to the next log id and sleeps 0.5.
EndFetch(out) ==
    LET success == FetchReturn(out) = "True"
    IN  /\ outcome' = out
        /\ raw_folder' = (raw_folder \ {SbemFile(current_log_id, "open")})
                            \cup {SbemFile(current_log_id, out)}
        /\ returns' = returns \cup {<<out, FetchReturn(out)>>}
        /\ consecutive_misses' = MissesAfter(success, consecutive_misses)
        /\ success_flag' = (success_flag \/ success)
        /\ current_log_id' = current_log_id + 1
        /\ ble_pc' = "loop"

\* DrainGoesOn without the test of the event.
DrainGoesOnIgnoresEvent == consecutive_misses < miss_limit

\* while not disconnected_event.is_set() and consecutive_misses < max_consecutive_misses
DrainGoesOn == ~disconnected_event /\ consecutive_misses < miss_limit

\* The drain loop enters fetch_log: the file is opened 'wb' and the command is
\* handed to write_gatt_char.
StartFetch ==
    /\ ble_pc = "loop"
    /\ DrainGoesOn
    /\ current_log_id <= MaxLogs
    /\ log_file' = <<>>
    /\ raw_folder' = raw_folder \cup {SbemFile(current_log_id, "open")}
    /\ commands' = Append(commands, FetchCommand(current_log_id))
    /\ open_logs' = open_logs \cup {current_log_id}
    /\ ble_pc' = "write"
    /\ UNCHANGED <<current_log_id, consecutive_misses, success_flag, miss_limit, devices,
                   disconnected_event, queue, inbound, waited, flag_in_wait, outcome,
                   returns, sent_for, answered, handed, nonFetchVars>>

\* write_gatt_char is over: it raised (Error), or the while loop of fetch_log
\* tests the event and the first wait_for starts.
WriteOver ==
    /\ ble_pc = "write"
    /\ \E raised \in BOOLEAN :
          IF raised THEN /\ EndFetch("Error")
                         /\ UNCHANGED <<waited, flag_in_wait>>
          ELSE IF disconnected_event
               THEN /\ EndFetch("Disconnected")
                    /\ UNCHANGED <<waited, flag_in_wait>>
               ELSE /\ ble_pc' = "wait"
                    /\ waited' = RestartWait(waited)
                    /\ flag_in_wait' = FALSE
                    /\ UNCHANGED <<current_log_id, consecutive_misses, success_flag,
                                   outcome, returns, raw_folder>>
    /\ UNCHANGED <<miss_limit, devices, disconnected_event, queue, inbound, log_file, commands,
                   open_logs, sent_for, answered, handed, nonFetchVars>>

\* The log the device answers: the first it was asked for and has not ended.
AnsweredLog == CHOOSE l \in open_logs : \A h \in open_logs : l <= h

\* The device sends a notification in answer to a fetch command, the empty
\* payload being the last one for that log: the callback of start_notify makes a
\* task of notification_handler, which puts the stripped bytes on the queue.
Notify ==
    /\ ble_pc \in {"loop", "write", "wait"}
    /\ ~disconnected_event
    /\ Len(queue) < MaxQueue
    /\ open_logs # {}
    /\ \E data \in Notifications :
          /\ queue' = Append(queue, notification_handler(data))
          /\ inbound' = Append(inbound, data)
          /\ sent_for' = Append(sent_for, AnsweredLog)
          /\ open_logs' = IF PayloadOf(notification_handler(data)) = <<>>
                          THEN open_logs \ {AnsweredLog} ELSE open_logs
    /\ UNCHANGED <<ble_pc, current_log_id, consecutive_misses, success_flag, miss_limit, devices,
                   disconnected_event, log_file, waited, flag_in_wait, outcome, returns,
                   commands, answered, raw_folder, handed, nonFetchVars>>

\* wait_for returns an item: the offset and the payload are read; a payload is
\* written at the offset (the write may raise) and the while loop tests the
\* event before the next wait_for; the empty payload ends the fetch.
Receive ==
    /\ ble_pc = "wait"
    /\ queue # <<>>
    /\ LET item == Head(queue)
           offset == get_uint_32(item, 0)
           payload == PayloadOf(item)
       IN  IF Len(payload) > 0
           THEN \E raised \in BOOLEAN :
                   IF raised
                   THEN /\ EndFetch("Error")
                        /\ UNCHANGED <<log_file, waited, flag_in_wait, answered>>
                   ELSE /\ log_file' = SeekWrite(log_file, offset, payload)
                        /\ answered' = answered \cup {<<current_log_id, Head(sent_for)>>}
                        /\ IF disconnected_event
                           THEN /\ EndFetch("Disconnected")
                                /\ UNCHANGED <<waited, flag_in_wait>>
                           ELSE /\ waited' = RestartWait(waited)
                                /\ flag_in_wait' = FALSE
                                /\ UNCHANGED <<ble_pc, current_log_id, consecutive_misses,
                                               success_flag, outcome, returns, raw_folder>>
           ELSE /\ EndFetch("Complete")
                /\ answered' = answered \cup {<<current_log_id, Head(sent_for)>>}
                /\ UNCHANGED <<log_file, waited, flag_in_wait>>
    /\ queue' = Tail(queue)
    /\ inbound' = Tail(inbound)
    /\ sent_for' = Tail(sent_for)
    /\ UNCHANGED <<miss_limit, devices, disconnected_event, commands, open_logs, handed,
                   nonFetchVars>>

\* One time unit passes in wait_for with nothing on the queue.
Tick ==
    /\ ble_pc = "wait"
    /\ queue = <<>>
    /\ waited < FetchTimeout
    /\ waited' = waited + 1
    /\ UNCHANGED <<ble_pc, current_log_id, consecutive_misses, success_flag, miss_limit, devices,
                   disconnected_event, queue, inbound, log_file, flag_in_wait, outcome,
                   returns, commands, open_logs, sent_for, answered, raw_folder, handed,
                   nonFetchVars>>

\* except asyncio.TimeoutError: return False
Timeout ==
    /\ ble_pc = "wait"
    /\ queue = <<>>
    /\ waited = FetchTimeout
    /\ EndFetch("TimedOut")
    /\ UNCHANGED <<miss_limit, devices, disconnected_event, queue, inbound, log_file, waited,
                   flag_in_wait, commands, open_logs, sent_for, answered, handed,
                   nonFetchVars>>

\* disconnect_callback: disconnected_event.set()
Disconnect ==
    /\ ble_pc \in {"loop", "write", "wait", "hello", "grace"}
    /\ ~disconnected_event
    /\ disconnected_event' = TRUE
    /\ flag_in_wait' = (flag_in_wait \/ (ble_pc = "wait" /\ waited < FetchTimeout))
    /\ UNCHANGED <<ble_pc, current_log_id, consecutive_misses, success_flag, miss_limit, devices,
                   queue, inbound, log_file, waited, outcome, returns, commands,
                   open_logs, sent_for, answered, raw_folder, handed, nonFetchVars>>

\* hello_cmd = bytearray([0, 101])
hello_cmd == <<0, 101>>

\* The drain loop has ended: hello_cmd is handed to write_gatt_char.
SendHello ==
    /\ ble_pc = "loop"
    /\ ~DrainGoesOn
    /\ commands' = Append(commands, hello_cmd)
    /\ ble_pc' = "hello"
    /\ UNCHANGED <<current_log_id, consecutive_misses, success_flag, miss_limit, devices,
                   disconnected_event, queue, inbound, log_file, waited, flag_in_wait,
                   outcome, returns, open_logs, sent_for, answered, raw_folder, handed,
                   nonFetchVars>>

\* HelloRaised without the try/except around the write.
HelloRaisedUncaught == "raised"

\* Where run_ble_client goes on when the write of hello_cmd raises:
\* "except Exception as e: logging.error(...)", then asyncio.sleep(2.0).
HelloRaised == "grace"

\* The write of hello_cmd is over, raised or not; asyncio.sleep(2.0) starts.
HelloOver ==
    /\ ble_pc = "hello"
    /\ \E raised \in BOOLEAN : ble_pc' = IF raised THEN HelloRaised ELSE "grace"
    /\ UNCHANGED <<current_log_id, consecutive_misses, success_flag, miss_limit, devices,
                   disconnected_event, queue, inbound, log_file, waited, flag_in_wait,
                   outcome, returns, commands, open_logs, sent_for, answered, raw_folder,
                   handed, nonFetchVars>>

\* The sleep is over: queue.put(None), asyncio.sleep(1.0), the BleakClient
\* context is left and run_ble_client returns success_flag.
Release ==
    /\ ble_pc = "grace"
    /\ queue' = Append(queue, "None")
    /\ ble_pc' = "released"
    /\ UNCHANGED <<current_log_id, consecutive_misses, success_flag, miss_limit, devices,
                   disconnected_event, inbound, log_file, waited, flag_in_wait, outcome,
                   returns, commands, open_logs, sent_for, answered, raw_folder, handed,
                   nonFetchVars>>

\* glob.glob(os.path.join(self.raw_folder, f"*{sensor_id}_*.sbem")): every file
\* of the sensor in the folder, whatever its timestamp and its log id.
MatchingFiles(folder) == folder

\* extract_sensor has returned success_flag to the worker: "if
\* extraction_success: sensor_extracted = True", and "if sensor_extracted" every
\* matching file is handed to convert_sbem.
WorkerConvert ==
    /\ ble_pc = "released"
    /\ handed' = IF success_flag THEN MatchingFiles(raw_folder) ELSE {}
    /\ ble_pc' = "handed"
    /\ UNCHANGED <<current_log_id, consecutive_misses, success_flag, miss_limit, devices,
                   disconnected_event, queue, inbound, log_file, waited, flag_in_wait,
                   outcome, returns, commands, open_logs, sent_for, answered, raw_folder,
                   nonFetchVars>>

\* The serial ending run_ble_client is asked for (end_of_serial).
end_of_serial == <<"4", "2">>

\* d.name of a device that advertises no name: None, or the empty string.
NoName == <<>>

\* The lists discover() returns: nothing, a device without a name, devices whose
\* names hold the ending elsewhere than at the end, and a list where the second
\* device has the ending.
DeviceLists ==
    {<<>>,
     <<NoName>>,
     <<<<"4", "2", "1">>, <<"2">>>>,
     <<NoName, <<"M", "1", "4", "2">>>>}

\* endswith testing the start of the name.
endswithTestsStart(name, suffix) ==
    Len(name) >= Len(suffix) /\ SubSeq(name, 1, Len(suffix)) = suffix

\* d.name.endswith(end_of_serial)
endswith(name, suffix) ==
    Len(name) >= Len(suffix)
        /\ SubSeq(name, Len(name) - Len(suffix) + 1, Len(name)) = suffix

\* for d in devices: if d.name and d.name.endswith(end_of_serial): found = True
SensorFound(ds) == \E k \in 1 .. Len(ds) : ds[k] # NoName /\ endswith(ds[k], end_of_serial)

\* run_ble_client up to the drain loop: discover(), the search for the name,
\* and either the connection with start_notify, or "else: await
\* queue.put(None)" and "return False".
Discover ==
    /\ ble_pc = "discover"
    /\ \E ds \in DeviceLists :
          /\ devices' = ds
          /\ IF SensorFound(ds)
             THEN /\ ble_pc' = "loop"
                  /\ queue' = queue
             ELSE /\ ble_pc' = "absent"
                  /\ queue' = Append(queue, "None")
    /\ UNCHANGED <<current_log_id, consecutive_misses, success_flag, miss_limit,
                   disconnected_event, inbound, log_file, waited, flag_in_wait, outcome,
                   returns, commands, open_logs, sent_for, answered, raw_folder, handed,
                   nonFetchVars>>

\* What run_ble_client returns: False on the "else" branch of "if found",
\* success_flag after the connection.
RunBleClientResult == IF ble_pc = "absent" THEN FALSE ELSE success_flag

\* run_ble_client is called: nothing discovered yet; current_log_id = 1,
\* consecutive_misses = 0 and success_flag = False are the values the
\* connected branch starts with.
FetchInit ==
    /\ SchedIdle
    /\ GuiIdle
    /\ SeqIdle
    /\ CmdIdle
    /\ PermIdle
    /\ ConvIdle
    /\ SbemIdle
    /\ GrpIdle
    /\ ble_pc = "discover"
    /\ current_log_id = 1
    /\ consecutive_misses = 0
    /\ success_flag = FALSE
    /\ miss_limit \in max_consecutive_misses .. MaxMissLimit
    /\ disconnected_event = FALSE
    /\ queue = <<>>
    /\ inbound = <<>>
    /\ log_file = <<>>
    /\ waited = 0
    /\ flag_in_wait = FALSE
    /\ outcome = "none"
    /\ returns = {}
    /\ commands = <<>>
    /\ open_logs = {}
    /\ sent_for = <<>>
    /\ answered = {}
    /\ raw_folder \in {{}, {EarlierFile}}
    /\ handed = {}
    /\ devices = <<>>

FetchNext ==
    \/ Discover
    \/ StartFetch
    \/ WriteOver
    \/ Notify
    \/ Receive
    \/ Tick
    \/ Timeout
    \/ Disconnect
    \/ SendHello
    \/ HelloOver
    \/ Release
    \/ WorkerConvert

SpecFetch == FetchInit /\ [][FetchNext]_vars

(***************************************************************************)
(* One log delivered in two orders                                         *)
(***************************************************************************)

\* Most notifications with data in one log.
MaxFrags == 3

\* The notifications that carry data.
DataNotifications == {d \in Notifications : Len(d) > 6}

\* The notification that marks the end of the file.
EofNotification == <<2, 101, 0, 0, 0, 0>>

\* What fetch_log does to the file for one notification: the handler strips it,
\* the offset and payload are read, a non-empty payload is written.
FetchItem(f, data) ==
    LET item == notification_handler(data)
    IN  IF Len(PayloadOf(item)) > 0
        THEN SeekWrite(f, get_uint_32(item, 0), PayloadOf(item))
        ELSE f

\* The orders in which n notifications can be delivered.
Orders(n) == {o \in [1 .. n -> 1 .. n] : \A i, j \in 1 .. n : o[i] = o[j] => i = j}

\* The next notification is delivered: to one file in the order of frags, to the
\* other in the order chosen.
PermDeliver ==
    /\ perm_pc = "deliver"
    /\ perm_k < Len(frags)
    /\ perm_k' = perm_k + 1
    /\ file_original' = FetchItem(file_original, frags[perm_k + 1])
    /\ file_permuted' = FetchItem(file_permuted, frags[order[perm_k + 1]])
    /\ UNCHANGED <<frags, order, perm_pc, nonPermVars>>

\* The end-of-file marker is delivered after the last notification: both
\* fetches are complete.
PermEof ==
    /\ perm_pc = "deliver"
    /\ perm_k = Len(frags)
    /\ file_original' = FetchItem(file_original, EofNotification)
    /\ file_permuted' = FetchItem(file_permuted, EofNotification)
    /\ perm_pc' = "complete"
    /\ UNCHANGED <<frags, order, perm_k, nonPermVars>>

\* fetch_log has opened the file and waits for the first notification.
PermInit ==
    /\ SchedIdle
    /\ GuiIdle
    /\ SeqIdle
    /\ FetchIdle
    /\ CmdIdle
    /\ ConvIdle
    /\ SbemIdle
    /\ GrpIdle
    /\ frags \in UNION {[1 .. n -> DataNotifications] : n \in 1 .. MaxFrags}
    /\ order \in Orders(Len(frags))
    /\ perm_pc = "deliver"
    /\ perm_k = 0
    /\ file_original = <<>>
    /\ file_permuted = <<>>

PermNext ==
    \/ PermDeliver
    \/ PermEof

SpecPerm == PermInit /\ [][PermNext]_vars

(***************************************************************************)
(* The decoder: converter.py                                               *)
(***************************************************************************)

\* The two converter.py of the repository.
Converters == {"pc-extractor-parser", "MovesenseTool"}

\* ReservedSbemId_e_Escape[0]
ReservedSbemId_e_Escape == 255

\* ReservedSbemId_e_Descriptor = 0
ReservedSbemId_e_Descriptor == 0

Smaller(a, b) == IF a < b THEN a ELSE b

\* f.read(n) at position pos: the bytes read (fewer than n at the end of the
\* stream) and the position after.
Read(stream, pos, n) ==
    [bytes |-> SubSeq(stream, pos + 1, Smaller(pos + n, Len(stream))),
     pos |-> Smaller(pos + n, Len(stream))]

\* int.from_bytes(b, byteorder="little"); struct.unpack("<I", b), ("<H", b)
RECURSIVE from_bytes(_)
from_bytes(b) == IF b = <<>> THEN 0 ELSE Head(b) + 256 * from_bytes(Tail(b))

\* What readId and readLen give back: ok is FALSE for "return None"; pos is
\* f.tell() after the call.
ReadResult(ok, value, pos) == [ok |-> ok, value |-> value, pos |-> pos]

\* readId with the two extra bytes read as a big-endian integer.
readIdBigEndian(stream, pos) ==
    LET byte1 == Read(stream, pos, 1)
        extra == Read(stream, byte1.pos, 2)
    IN  IF byte1.bytes = <<>> THEN ReadResult(FALSE, 0, byte1.pos)
        ELSE IF byte1.bytes[1] >= ReservedSbemId_e_Escape
        THEN IF Len(extra.bytes) # 2 THEN ReadResult(FALSE, 0, extra.pos)
             ELSE ReadResult(TRUE, 256 * extra.bytes[1] + extra.bytes[2], extra.pos)
        ELSE ReadResult(TRUE, byte1.bytes[1], byte1.pos)

\* readId taking the first byte as the id whatever its value.
readIdNoEscape(stream, pos) ==
    LET byte1 == Read(stream, pos, 1)
    IN  IF byte1.bytes = <<>> THEN ReadResult(FALSE, 0, byte1.pos)
        ELSE ReadResult(TRUE, byte1.bytes[1], byte1.pos)

\* readId(f)
readId(stream, pos) ==
    LET byte1 == Read(stream, pos, 1)
        extra == Read(stream, byte1.pos, 2)
    IN  IF byte1.bytes = <<>> THEN ReadResult(FALSE, 0, byte1.pos)
        ELSE IF from_bytes(byte1.bytes) >= ReservedSbemId_e_Escape
        THEN IF Len(extra.bytes) # 2 THEN ReadResult(FALSE, 0, extra.pos)
             ELSE ReadResult(TRUE, from_bytes(extra.bytes), extra.pos)
        ELSE ReadResult(TRUE, from_bytes(byte1.bytes), byte1.pos)

\* readLen with an extended length of 2 bytes.
readLenTwoBytes(stream, pos) ==
    LET byte1 == Read(stream, pos, 1)
        extra == Read(stream, byte1.pos, 2)
    IN  IF byte1.bytes = <<>> THEN ReadResult(FALSE, 0, byte1.pos)
        ELSE IF byte1.bytes[1] < ReservedSbemId_e_Escape
        THEN ReadResult(TRUE, byte1.bytes[1], byte1.pos)
        ELSE IF Len(extra.bytes) # 2 THEN ReadResult(FALSE, 0, extra.pos)
        ELSE ReadResult(TRUE, from_bytes(extra.bytes), extra.pos)

\* readLen giving the length 0 at the end of the stream.
readLenZeroAtEnd(stream, pos) ==
    LET byte1 == Read(stream, pos, 1)
        extra == Read(stream, byte1.pos, 4)
    IN  IF byte1.bytes = <<>> THEN ReadResult(TRUE, 0, byte1.pos)
        ELSE IF byte1.bytes[1] < ReservedSbemId_e_Escape
        THEN ReadResult(TRUE, byte1.bytes[1], byte1.pos)
        ELSE IF Len(extra.bytes) # 4 THEN ReadResult(FALSE, 0, extra.pos)
        ELSE ReadResult(TRUE, from_bytes(extra.bytes), extra.pos)

\* readLen(f)
readLen(stream, pos) ==
    LET byte1 == Read(stream, pos, 1)
        extra == Read(stream, byte1.pos, 4)
    IN  IF byte1.bytes = <<>> THEN ReadResult(FALSE, 0, byte1.pos)
        ELSE IF byte1.bytes[1] < ReservedSbemId_e_Escape
        THEN ReadResult(TRUE, byte1.bytes[1], byte1.pos)
        ELSE IF Len(extra.bytes) # 4 THEN ReadResult(FALSE, 0, extra.pos)
        ELSE ReadResult(TRUE, from_bytes(extra.bytes), extra.pos)

\* Text is a sequence of characters, one string per character.  The ASCII
\* decimal digits, at index value + 1.
AsciiDigits == <<"0", "1", "2", "3", "4", "5", "6", "7", "8", "9">>

IsAsciiDigit(ch) == \E k \in 1 .. Len(AsciiDigits) : AsciiDigits[k] = ch

\* Characters for which str.isdigit() is True and that int() rejects with
\* ValueError: U+00B2 SUPERSCRIPT TWO.
OtherDigits == {"SUPERSCRIPT TWO"}

\* ch.isdigit()
isdigit(ch) == IsAsciiDigit(ch) \/ ch \in OtherDigits

\* Characters str.strip() removes and str.splitlines() splits at.
Whitespace == {" ", "LF"}

\* The group marker "<GRP>".
GroupMarker == <<"<", "G", "R", "P", ">">>

\* The characters of the ASCII bytes the streams of the model hold; every other
\* ASCII byte is a character that is no digit, no comma and no whitespace.
Chr(b) ==
    CASE b = 10 -> "LF"
      [] b = 32 -> " "
      [] b = 44 -> ","
      [] b = 60 -> "<"
      [] b = 62 -> ">"
      [] b = 71 -> "G"
      [] b = 80 -> "P"
      [] b = 82 -> "R"
      [] b \in 48 .. 57 -> AsciiDigits[b - 47]
      [] OTHER -> "ascii"

\* bytes.decode("utf-8", errors="replace"): an ASCII byte is its character, a
\* well-formed two-byte sequence (a byte of 0xC2..0xDF, then one of 0x80..0xBF)
\* is one character (0xC2 0xB2 is U+00B2), and a byte that starts no well-formed
\* sequence becomes U+FFFD.  It never fails.
IsLead(b, k) == k \in 1 .. Len(b) - 1 /\ b[k] \in 194 .. 223 /\ b[k + 1] \in 128 .. 191

CharAt(b, k) ==
    IF b[k] < 128 THEN Chr(b[k])
    ELSE IF IsLead(b, k)
    THEN (IF b[k] = 194 /\ b[k + 1] = 178 THEN "SUPERSCRIPT TWO" ELSE "non-ascii")
    ELSE IF IsLead(b, k - 1) THEN "continuation"
    ELSE "U+FFFD"

IsCharacter(ch) == ch # "continuation"

decode(b) == SelectSeq([k \in 1 .. Len(b) |-> CharAt(b, k)], IsCharacter)

\* str.lstrip(), str.rstrip(), str.strip()
RECURSIVE lstrip(_)
lstrip(text) ==
    IF text # <<>> /\ Head(text) \in Whitespace THEN lstrip(Tail(text)) ELSE text

RECURSIVE rstrip(_)
rstrip(text) ==
    IF text # <<>> /\ text[Len(text)] \in Whitespace
    THEN rstrip(SubSeq(text, 1, Len(text) - 1))
    ELSE text

strip(text) == rstrip(lstrip(text))

\* text.split(sep): the pieces between the separators, empty pieces included.
RECURSIVE split(_, _)
split(text, sep) ==
    IF \A k \in 1 .. Len(text) : text[k] # sep THEN <<text>>
    ELSE LET k == CHOOSE j \in 1 .. Len(text) :
                      text[j] = sep /\ \A h \in 1 .. j - 1 : text[h] # sep
         IN  <<SubSeq(text, 1, k - 1)>> \o split(SubSeq(text, k + 1, Len(text)), sep)

\* data_str.splitlines(), for the line feed.
RECURSIVE splitlines(_)
splitlines(text) ==
    IF text = <<>> THEN <<>>
    ELSE IF \A k \in 1 .. Len(text) : text[k] # "LF" THEN <<text>>
    ELSE LET k == CHOOSE j \in 1 .. Len(text) :
                      text[j] = "LF" /\ \A h \in 1 .. j - 1 : text[h] # "LF"
         IN  <<SubSeq(text, 1, k - 1)>> \o splitlines(SubSeq(text, k + 1, Len(text)))

\* line.startswith("<GRP>")
startswith(line, prefix) ==
    Len(line) >= Len(prefix) /\ SubSeq(line, 1, Len(prefix)) = prefix

\* "".join(ch for ch in tok if ch.isdigit())
tok_clean(tok) == SelectSeq(tok, isdigit)

DigitValue(ch) == (CHOOSE k \in 1 .. Len(AsciiDigits) : AsciiDigits[k] = ch) - 1

RECURSIVE DecimalValue(_)
DecimalValue(digits) ==
    IF digits = <<>> THEN 0
    ELSE 10 * DecimalValue(SubSeq(digits, 1, Len(digits) - 1))
           + DigitValue(digits[Len(digits)])

\* int(tok_clean) of a text of isdigit characters: the decimal value, or
\* ValueError (ok FALSE) when a character is no decimal digit.
int(digits) ==
    IF \A k \in 1 .. Len(digits) : IsAsciiDigit(digits[k])
    THEN [ok |-> TRUE, value |-> DecimalValue(digits)]
    ELSE [ok |-> FALSE, value |-> 0]

\* The loop of parseGroupLine over the tokens: token_values.
RECURSIVE TokenValues(_)
TokenValues(tokens) ==
    IF tokens = <<>> THEN <<>>
    ELSE LET clean == tok_clean(Head(tokens))
         IN  (IF clean = <<>> THEN <<>>
              ELSE IF int(clean).ok THEN <<int(clean).value>>
              ELSE <<>>) \o TokenValues(Tail(tokens))

\* parseGroupLine(line): the returned token_values.
parseGroupLine(line) ==
    LET stripped == strip(line)
        clean_line == SubSeq(stripped, Len(GroupMarker) + 1, Len(stripped))
    IN  TokenValues(split(clean_line, ","))

\* The group lines of a descriptor chunk: parseGroupLine of every line of the
\* decoded text that starts with the marker.
RECURSIVE GroupLines(_)
GroupLines(lines) ==
    IF lines = <<>> THEN <<>>
    ELSE (IF startswith(Head(lines), GroupMarker)
          THEN <<parseGroupLine(Head(lines))>> ELSE <<>>) \o GroupLines(Tail(lines))

\* parse_MEASIMU6_new, parse_IMU6_new: the float32 fields are kept as their
\* bytes.
parse_MEASIMU6_new(data_bytes, index) ==
    IF Len(data_bytes) < 52 THEN <<>>
    ELSE <<[chunk_index |-> index, group |-> "IMU",
            TIMESTAMP |-> from_bytes(SubSeq(data_bytes, 1, 4)),
            ACCEL |-> SubSeq(data_bytes, 5, 28),
            GYRO |-> SubSeq(data_bytes, 29, 52)]>>

\* parse_ECGmV_chunk, parse_ECG_mV
parse_ECGmV_chunk(data_bytes, index) ==
    IF Len(data_bytes) # 68 THEN <<>>
    ELSE <<[chunk_index |-> index, group |-> "ECGmV",
            TIMESTAMP |-> from_bytes(SubSeq(data_bytes, 1, 4)),
            SAMPLES |-> SubSeq(data_bytes, 5, 68)]>>

\* parse_HR_chunk_new of MovesenseTool/conversion/converter.py
parse_HR_chunk_new(data_bytes, index) ==
    IF Len(data_bytes) # 6 THEN <<>>
    ELSE <<[chunk_index |-> index, group |-> "HR",
            AVERAGE |-> SubSeq(data_bytes, 1, 4),
            RR |-> from_bytes(SubSeq(data_bytes, 5, 6))]>>

\* The fallback branch of parseDataChunk.
FallbackChunk(chunk_id, data_bytes, index) ==
    IF Len(data_bytes) < 4 THEN <<>>
    ELSE <<[chunk_index |-> index, chunk_id |-> chunk_id,
            value |-> from_bytes(SubSeq(data_bytes, 1, 4))]>>

\* parseDataChunk(chunk_id, data_bytes, data_chunk_index) of converter c: the
\* records it appends to data_chunks.
parseDataChunk(c, chunk_id, data_bytes, index) ==
    IF Len(data_bytes) = 52 THEN parse_MEASIMU6_new(data_bytes, index)
    ELSE IF Len(data_bytes) = 68 THEN parse_ECGmV_chunk(data_bytes, index)
    ELSE IF c = "MovesenseTool" /\ Len(data_bytes) = 6
    THEN parse_HR_chunk_new(data_bytes, index)
    ELSE FallbackChunk(chunk_id, data_bytes, index)

\* The descriptor branch: the chunk is decoded as text, and parseGroupLine is
\* called on each of its lines that starts with the marker.
DescriptorGroups(chunk_bytes) ==
    CHOOSE g \in {GroupLines(lines) :
                     lines \in {splitlines(text) : text \in {decode(chunk_bytes)}}} : TRUE

\* Dispatch of processSBEM with the descriptor chunk sent through
\* parseDataChunk as well.
DispatchAllChunks(c, chunk_id, chunk_bytes, index) ==
    [rows |-> parseDataChunk(c, chunk_id, chunk_bytes, index),
     groups |-> IF chunk_id = ReservedSbemId_e_Descriptor
                THEN DescriptorGroups(chunk_bytes) ELSE <<>>]

\* Dispatch of processSBEM: a descriptor chunk is decoded as text and its group
\* lines parsed, any other chunk goes through parseDataChunk.
Dispatch(c, chunk_id, chunk_bytes, index) ==
    IF chunk_id = ReservedSbemId_e_Descriptor
    THEN [rows |-> <<>>, groups |-> DescriptorGroups(chunk_bytes)]
    ELSE [rows |-> parseDataChunk(c, chunk_id, chunk_bytes, index), groups |-> <<>>]

\* The three reads of one turn of the chunk loop at position pos.
ChunkRead(stream, pos) ==
    LET chunk_id == readId(stream, pos)
        datasize == IF chunk_id.ok THEN readLen(stream, chunk_id.pos)
                    ELSE ReadResult(FALSE, 0, chunk_id.pos)
        chunk_bytes == IF datasize.ok THEN Read(stream, datasize.pos, datasize.value)
                       ELSE [bytes |-> <<>>, pos |-> datasize.pos]
    IN  [id_pos |-> pos, chunk_id |-> chunk_id,
         len_called |-> chunk_id.ok, datasize |-> datasize,
         read_called |-> datasize.ok, chunk_bytes |-> chunk_bytes.bytes,
         pos |-> chunk_bytes.pos,
         ok |-> datasize.ok /\ Len(chunk_bytes.bytes) = datasize.value]

\* processSBEM(file_path) up to the loop: the globals are cleared, the file is
\* opened and readHeader reads 8 bytes.
ProcessSBEMOpen ==
    /\ sbem_pc = "call"
    /\ sbem_rows' = <<>>
    /\ sbem_groups' = <<>>
    /\ sbem_pos' = Read(sbem, 0, 8).pos
    /\ sbem_index' = 0
    /\ sbem_pc' = "loop"
    /\ UNCHANGED <<variant, sbem, src_chunks, decoded, last_read>>
    /\ UNCHANGED nonSbemVars

\* The rows kept when the loop is left at a malformed chunk, were they dropped.
RowsAtBreakDropped(kept) == <<>>

\* The rows kept when the loop is left at a malformed chunk.
RowsAtBreak(kept) == kept

\* One turn of the chunk loop over a whole chunk.
ProcessSBEMChunk ==
    /\ sbem_pc = "loop"
    /\ \E turn \in {ChunkRead(sbem, sbem_pos)} :
           /\ turn.ok
           /\ \E out \in {Dispatch(variant, turn.chunk_id.value, turn.chunk_bytes,
                                    sbem_index)} :
                  /\ sbem_rows' = sbem_rows \o out.rows
                  /\ sbem_groups' = sbem_groups \o out.groups
           /\ decoded' = Append(decoded, <<turn.chunk_id.value, turn.chunk_bytes>>)
           /\ sbem_pos' = turn.pos
           /\ last_read' = turn
    /\ sbem_index' = sbem_index + 1
    /\ UNCHANGED <<variant, sbem, src_chunks, sbem_pc>>
    /\ UNCHANGED nonSbemVars

\* The turn of the chunk loop that meets the end of the stream in the id, in the
\* length or in the payload: break, and processSBEM returns data_chunks.
ProcessSBEMBreak ==
    /\ sbem_pc = "loop"
    /\ \E turn \in {ChunkRead(sbem, sbem_pos)} :
           /\ ~turn.ok
           /\ sbem_pos' = turn.pos
           /\ last_read' = turn
    /\ sbem_rows' = RowsAtBreak(sbem_rows)
    /\ sbem_pc' = "returned"
    /\ UNCHANGED <<variant, sbem, src_chunks, sbem_index, sbem_groups, decoded>>
    /\ UNCHANGED nonSbemVars

\* The files the decoder is run on: an 8-byte header, then up to MaxSbemChunks
\* whole chunks, then nothing or the beginning of one more chunk.
MaxSbemChunks == 2

SbemHeader == <<83, 66, 69, 77, 1, 0, 0, 0>>

\* Chunk ids on both sides of the escape value, the descriptor id included.
ChunkIds == {ReservedSbemId_e_Descriptor, 254, 255, 65535}

\* Payload bytes: some of them are not ASCII and start no UTF-8 sequence.
Fill(n) == [k \in 1 .. n |-> (200 + 19 * k) % 256]

\* The descriptor text "<GRP>10,26", and the same after a byte that is not
\* UTF-8 and a line feed.
GroupText == <<60, 71, 82, 80, 62, 49, 48, 44, 50, 54>>

ChunkPayloads ==
    {Fill(n) : n \in {0, 3, 4, 6, 52, 68, 255}} \cup {GroupText, <<255, 10>> \o GroupText}

SbemChunks == {<<i, b>> : i \in ChunkIds, b \in ChunkPayloads}

ChunkSeqs == UNION {[1 .. n -> SbemChunks] : n \in 0 .. MaxSbemChunks}

\* The writer of the container: the one-byte form for a value below 255, the
\* escaped form otherwise.
EncodeId(i) ==
    IF i < ReservedSbemId_e_Escape THEN <<i>>
    ELSE <<ReservedSbemId_e_Escape, i % 256, i \div 256>>

EncodeLen(n) ==
    IF n < ReservedSbemId_e_Escape THEN <<n>>
    ELSE <<ReservedSbemId_e_Escape, n % 256, (n \div 256) % 256,
           (n \div 65536) % 256, n \div 16777216>>

RECURSIVE EncodeChunks(_)
EncodeChunks(chunks) ==
    IF chunks = <<>> THEN <<>>
    ELSE EncodeId(Head(chunks)[1]) \o EncodeLen(Len(Head(chunks)[2]))
           \o Head(chunks)[2] \o EncodeChunks(Tail(chunks))

\* What follows the last whole chunk: the end of the file, an escaped id cut
\* short, an id without a length, an escaped length cut short, and payloads
\* shorter than their declared length.
SbemTails ==
    {<<>>, <<255>>, <<255, 1>>, <<7>>, <<7, 255, 1, 0>>, <<7, 5, 1, 2>>,
     <<0, 5, 60>>, <<255, 44, 1, 255, 4, 0, 0, 0, 9>>}

\* Lengths of a file that ends inside the header.
ShortHeaders == {0, 5}

\* The files of the termination check: fewer ids and payloads, the same ends
\* (the escaped id and the escaped length among them).
TermChunks ==
    {<<0, Fill(0)>>, <<0, GroupText>>, <<255, Fill(4)>>, <<254, Fill(6)>>}

TermChunkSeqs == UNION {[1 .. n -> TermChunks] : n \in 0 .. MaxSbemChunks}

\* processSBEM is called on one of the files written from the chunks of seqs.
SbemInitOver(seqs) ==
    /\ variant \in Converters
    /\ src_chunks \in seqs
    /\ \/ \E t \in SbemTails : sbem = SbemHeader \o EncodeChunks(src_chunks) \o t
       \/ /\ src_chunks = <<>>
          /\ \E n \in ShortHeaders : sbem = SubSeq(SbemHeader, 1, n)
    /\ sbem_pos = 0
    /\ sbem_pc = "call"
    /\ sbem_index = 0
    /\ sbem_rows = <<>>
    /\ sbem_groups = <<>>
    /\ decoded = <<>>
    /\ last_read = <<>>
    /\ SchedIdle
    /\ GuiIdle
    /\ SeqIdle
    /\ FetchIdle
    /\ CmdIdle
    /\ PermIdle
    /\ ConvIdle
    /\ GrpIdle

SbemInit == SbemInitOver(ChunkSeqs)

SbemNext ==
    \/ ProcessSBEMOpen
    \/ ProcessSBEMChunk
    \/ ProcessSBEMBreak

SpecSbem == SbemInit /\ [][SbemNext]_vars

\* processSBEM runs on its thread without waiting for anything: a call that can
\* take a step takes it.
FairSbem == SbemInitOver(TermChunkSeqs) /\ [][SbemNext]_vars /\ WF_vars(SbemNext)

\* The lines parseGroupLine is run on: optional leading whitespace, the
\* marker, and 1..MaxTokens tokens joined by commas.
MaxTokens == 3

\* "10", "26", "", "a", "a7", "1 2", " 3", and two tokens with U+00B2.
GroupTokens ==
    {<<"1", "0">>, <<"2", "6">>, <<>>, <<"ascii">>, <<"ascii", "7">>,
     <<"1", " ", "2">>, <<" ", "3">>, <<"1", "SUPERSCRIPT TWO">>, <<"SUPERSCRIPT TWO">>}

TokenSeqs == UNION {[1 .. n -> GroupTokens] : n \in 1 .. MaxTokens}

\* ",".join(tokens)
RECURSIVE join(_)
join(tokens) ==
    IF Len(tokens) = 1 THEN tokens[1]
    ELSE tokens[1] \o <<",">> \o join(Tail(tokens))

GrpInit ==
    /\ SchedIdle
    /\ GuiIdle
    /\ SeqIdle
    /\ FetchIdle
    /\ CmdIdle
    /\ PermIdle
    /\ ConvIdle
    /\ SbemIdle
    /\ grp_tokens \in TokenSeqs
    /\ \E lead \in {<<>>, <<" ">>} : grp_line = lead \o GroupMarker \o join(grp_tokens)
    /\ grp_pc = "call"
    /\ token_values = <<>>

\* The call parseGroupLine(line).
ParseGroupLine ==
    /\ grp_pc = "call"
    /\ token_values' = parseGroupLine(grp_line)
    /\ grp_pc' = "returned"
    /\ UNCHANGED <<grp_tokens, grp_line>>
    /\ UNCHANGED nonGrpVars

GrpNext == ParseGroupLine

SpecGrp == GrpInit /\ [][GrpNext]_vars

(***************************************************************************)
(* The main window, its table and the extraction threads it starts        *)
(***************************************************************************)

\* Entries of the sensor table (len(self.sensor_list) after the mapping is loaded).
NumEntries == 2

\* Most ExtractionThread objects running at once.
MaxThreads == 2

\* Most signals waiting in the event queue of the GUI thread.
MaxPosted == 2

\* Most worker cycles followed in one thread.
MaxCycles == 2

Entries == 1 .. NumEntries

\* status_item.text().strip().lower() of the texts the window sets.
lower(text) ==
    CASE text = "Pending" -> "pending"
      [] text = "Found" -> "found"
      [] text = "Extracting" -> "extracting"
      [] text = "Completed" -> "completed"
      [] text = "Reset" -> "reset"
      [] text = "Not Found" -> "not found"

\* update_sensor_status: if 0 <= sensor_index < len(self.sensor_entries): setText
update_sensor_status(entries, sensor_index, status) ==
    IF sensor_index \in DOMAIN entries
    THEN [entries EXCEPT ![sensor_index] = status]
    ELSE entries

\* A worker task of a thread as it is created: at the top of its loop,
\* last_sensor = None.
NewTask == [pc |-> "select", last_sensor |-> NoSensor]

\* ExtractionThread.__init__ and the first lines of run_extraction: the copy of
\* the list, completed = [False] * n, busy = set(), pending = set(range(n)) and
\* concurrency_limit worker tasks; cycles counts the selections of the thread.
NewThread(sensor_list) ==
    [sensor_list |-> sensor_list,
     completed |-> {},
     busy |-> {},
     pending |-> 1 .. Len(sensor_list),
     cycles |-> 0,
     tasks |-> [w \in {NewTask} |-> concurrency_limit]]

\* sensors_to_extract: the sensors of the entries whose status is pending or
\* found, in the order of the table; the others are skipped.
SensorsToExtract(entries) ==
    SelectSeq([i \in DOMAIN entries |-> i],
              LAMBDA i : lower(entries[i]) \in {"pending", "found"})

\* on_extract in Extract mode with both folders, a mapping and a day number: an
\* ExtractionThread is made for sensors_to_extract, its two signals are connected
\* and it is started; self.extraction_thread is rebound, a thread started by an
\* earlier call goes on running.
on_extract ==
    /\ Len(extraction_threads) < MaxThreads
    /\ SensorsToExtract(sensor_entries) # <<>>
    /\ extraction_threads' =
          Append(extraction_threads, NewThread(SensorsToExtract(sensor_entries)))
    /\ UNCHANGED <<sensor_entries, window_found, posted, nonGuiVars>>

\* The entries update_device_list toggles: found, and not reset, completed or
\* extracting.
Toggled(entries, found) ==
    {i \in DOMAIN entries :
        i \in found /\ lower(entries[i]) \notin {"reset", "completed", "extracting"}}

\* update_device_list with toggle_sensor_found: the found list is replaced; each
\* toggled entry is set to "Found" (and its timer restarted: the timer of an
\* entry runs whenever the entry shows "Found").
update_device_list ==
    \E found \in SUBSET Entries :
        /\ window_found' = found
        /\ sensor_entries' = [i \in DOMAIN sensor_entries |->
                                 IF i \in Toggled(sensor_entries, found) THEN "Found"
                                 ELSE sensor_entries[i]]
        /\ UNCHANGED <<extraction_threads, posted, nonGuiVars>>

\* handle_found_timeout: the timer started by toggle_sensor_found expires; an
\* entry still "Found" goes back to "Pending" (on any other status the expiry
\* changes nothing).
handle_found_timeout(sensor_index) ==
    /\ lower(sensor_entries[sensor_index]) = "found"
    /\ sensor_entries' = update_sensor_status(sensor_entries, sensor_index, "Pending")
    /\ UNCHANGED <<window_found, extraction_threads, posted, nonGuiVars>>

\* The tasks of thread t, each local state once.
TasksOf(t) == BagToSet(t.tasks)

\* The tasks of thread t with the one in state w moved to state w2.
TaskMoved(t, w, w2) == (t.tasks (-) SetToBag({w})) (+) SetToBag({w2})

\* eligible of a worker of thread t: not completed, not busy, and the id in the
\* found list, which is the list object of the window.
ThreadEligible(t) ==
    {i \in 1 .. Len(t.sensor_list) :
        i \notin t.completed /\ i \notin t.busy /\ t.sensor_list[i] \in window_found}

\* eligible after "if last_sensor is not None and len(eligible) > 1 and
\* last_sensor in eligible: eligible.remove(last_sensor)"
ThreadCandidates(t, last) ==
    IF last # NoSensor /\ Cardinality(ThreadEligible(t)) > 1 /\ last \in ThreadEligible(t)
    THEN ThreadEligible(t) \ {last}
    ELSE ThreadEligible(t)

\* self.extractionStarted.emit(sensor_index), queued for the GUI thread.
Started(r, i) == [thread |-> r, kind |-> "started", idx |-> i, success |-> FALSE,
                  log_attempt_sent |-> FALSE]

\* self.extractionResult.emit(sensor_index, success, log_attempt_sent), queued.
Result(r, i, ok, flag) == [thread |-> r, kind |-> "result", idx |-> i, success |-> ok,
                           log_attempt_sent |-> flag]

\* A worker of thread r selects index i: busy.add, last_sensor = i,
\* extractionStarted is emitted and the session on sensor_list[i] begins.
ThreadSelect(r, w, i) ==
    LET t == extraction_threads[r]
    IN  /\ w.pc = "select"
        /\ i \in ThreadCandidates(t, w.last_sensor)
        /\ Len(posted) < MaxPosted
        /\ t.cycles < MaxCycles
        /\ extraction_threads' =
              [extraction_threads EXCEPT ![r] =
                  [t EXCEPT !.busy = @ \cup {i},
                            !.cycles = @ + 1,
                            !.tasks = TaskMoved(t, w, [pc |-> "session", last_sensor |-> i])]]
        /\ posted' = Append(posted, Started(r, i))
        /\ UNCHANGED <<sensor_entries, window_found, nonGuiVars>>

\* A worker of thread r finds nothing eligible and nothing pending: break.
ThreadSelectNone(r, w) ==
    LET t == extraction_threads[r]
    IN  /\ w.pc = "select"
        /\ ThreadCandidates(t, w.last_sensor) = {}
        /\ t.pending = {}
        /\ extraction_threads' =
              [extraction_threads EXCEPT ![r] =
                  [t EXCEPT !.tasks = TaskMoved(t, w, [w EXCEPT !.pc = "done"])]]
        /\ UNCHANGED <<sensor_entries, window_found, posted, nonGuiVars>>

\* The cycle of a worker of thread r ends: extractionResult is emitted with the
\* result of the session (True only after a fetch, so with the flag set) and
\* the sets of the thread are updated; "not found at extraction time" is the
\* result (False, False).
ThreadCycleOver(r, w) ==
    LET t == extraction_threads[r]
        i == w.last_sensor
    IN  /\ w.pc = "session"
        /\ Len(posted) < MaxPosted
        /\ \E success \in BOOLEAN, log_attempt_sent \in BOOLEAN :
              /\ success => log_attempt_sent
              /\ posted' = Append(posted, Result(r, i, success, log_attempt_sent))
              /\ extraction_threads' =
                    [extraction_threads EXCEPT ![r] =
                        [t EXCEPT !.busy = @ \ {i},
                                  !.completed = IF success THEN @ \cup {i} ELSE @,
                                  !.pending = IF success THEN @ \ {i} ELSE @,
                                  !.tasks = TaskMoved(t, w, [w EXCEPT !.pc = "select"])]]
        /\ UNCHANGED <<sensor_entries, window_found, nonGuiVars>>

\* handle_extraction_started: update_sensor_status(sensor_index, "Extracting")
handle_extraction_started(entries, sensor_index) ==
    update_sensor_status(entries, sensor_index, "Extracting")

\* handle_extraction_result: an entry that is completed or reset is left; else
\* "Completed" on success, "Reset" after a log attempt, "Not Found" otherwise.
handle_extraction_result(entries, sensor_index, success, log_attempt_sent) ==
    IF lower(entries[sensor_index]) \in {"completed", "reset"} THEN entries
    ELSE IF success THEN update_sensor_status(entries, sensor_index, "Completed")
    ELSE IF log_attempt_sent THEN update_sensor_status(entries, sensor_index, "Reset")
    ELSE update_sensor_status(entries, sensor_index, "Not Found")

\* The GUI thread takes the oldest queued signal and runs the slot connected to
\* it with the index the thread emitted.
HandleSignal ==
    /\ posted # <<>>
    /\ LET e == Head(posted)
       IN  sensor_entries' =
              IF e.kind = "started"
              THEN handle_extraction_started(sensor_entries, e.idx)
              ELSE handle_extraction_result(sensor_entries, e.idx, e.success,
                                            e.log_attempt_sent)
    /\ posted' = Tail(posted)
    /\ UNCHANGED <<window_found, extraction_threads, nonGuiVars>>

\* MainWindow after load_mapping_csv and rebuild_sensor_table: every entry is
\* "Pending", nothing is found yet, no thread is started.
GuiInit ==
    /\ SchedIdle
    /\ SeqIdle
    /\ FetchIdle
    /\ CmdIdle
    /\ PermIdle
    /\ ConvIdle
    /\ SbemIdle
    /\ GrpIdle
    /\ sensor_entries = [i \in Entries |-> "Pending"]
    /\ window_found = {}
    /\ extraction_threads = <<>>
    /\ posted = <<>>

\* One step of a worker task of one of the threads.
ThreadStep ==
    \/ \E r \in 1 .. Len(extraction_threads) :
          \E w \in TasksOf(extraction_threads[r]) : \E i \in Entries : ThreadSelect(r, w, i)
    \/ \E r \in 1 .. Len(extraction_threads) :
          \E w \in TasksOf(extraction_threads[r]) : ThreadSelectNone(r, w)
    \/ \E r \in 1 .. Len(extraction_threads) :
          \E w \in TasksOf(extraction_threads[r]) : ThreadCycleOver(r, w)

GuiNext ==
    \/ on_extract
    \/ update_device_list
    \/ \E i \in Entries : handle_found_timeout(i)
    \/ ThreadStep
    \/ HandleSignal

SpecGui == GuiInit /\ [][GuiNext]_vars

\* Fairness of the scheduler run.  The event loop runs every ready task, every
\* sleep and every Bluetooth wait ends: some worker step is taken as long as one
\* is possible.  random.choice picks each element of the list with the same
\* probability: a sensor that is again and again in the list of a selecting
\* worker is picked.
FairSpec ==
    /\ Spec
    /\ WF_vars(WorkerStep)
    /\ \A d \in Sensors : SF_vars(\E w \in Pool : SelectSensor(w, d))

\* FairSpec for a run during which the scanner keeps emitting changed lists.
FairScanSpec ==
    /\ FairSpec
    /\ WF_vars(Scan)

(***************************************************************************)
(* Properties                                                              *)
(***************************************************************************)

\* The workers that are in a cycle on sensor d.
OnSensor(d) == {w \in Pool : InCycle(w) /\ w.last_sensor = d}

\* The workers inside the semaphore-guarded extract_sensor call.
InSession == {w \in Pool : InSemaphore(w)}

AllDone == \A w \in Pool : w.pc = "done"

\* The last signal is extractionResult(d, False, ...).
FailedResult(d) == signal.kind = "result" /\ signal.idx = d /\ ~signal.success

\* C1: no sensor index is processed by two workers at once, and an index is in
\* the busy set exactly while one worker is between its selection and the end
\* of its cycle on it.
C1_MutualExclusion ==
    \A d \in Sensors :
        /\ Count(OnSensor(d)) <= 1
        /\ d \in busy <=> Count(OnSensor(d)) = 1

\* Two workers run sessions on two sensors at the same time.
C1_Witness == Cardinality({w.last_sensor : w \in InSession}) >= 2

\* C2: a worker that selects while the sensor of its previous cycle is eligible
\* together with at least one other sensor does not select that sensor again.
C2_NoImmediateRepeat ==
    [][\A w \in Pool : \A i \in Sensors :
          LET eligible == {j \in Sensors : /\ ~completed[j]
                                           /\ j \notin busy
                                           /\ j \in found_sensor_ids}
          IN  ( /\ w.pc = "select"
                /\ workers' = Moved(w, [w EXCEPT !.pc = "check", !.last_sensor = i])
                /\ w.last_sensor \in eligible
                /\ Cardinality(eligible) > 1 )
              => i # w.last_sensor]_vars

\* A selection at which the previous sensor was eligible with another one.
C2_Witness == signal.kind = "started" /\ signal.excluded # NoSensor

\* C3: when all workers have left their loop, no index is busy, none is pending
\* and every sensor is completed.
C3_TerminalWhenDone ==
    AllDone => /\ busy = {}
               /\ pending = {}
               /\ \A i \in Sensors : completed[i]

\* All workers have left their loop.
C3_Witness == AllDone

\* C4: the scheduler run terminates for every behaviour of the devices.
C4_RunTerminates == <>AllDone

\* C5: a step in which the session on a sensor ends without success leaves the
\* worker that ran it at the top of its loop and every other worker as it was,
\* clears the sensor from the busy set and reports the failure.
C5_FailureIsolated ==
    [][\A d \in Sensors :
          ( /\ \E w \in Pool : InSemaphore(w) /\ w.last_sensor = d
            /\ ~ \E v \in BagToSet(workers') :
                    v.pc \in {"discover", "drain", "convert"} /\ v.last_sensor = d
            /\ ~completed'[d] )
          => /\ \E w \in Pool :
                   /\ InSemaphore(w)
                   /\ w.last_sensor = d
                   /\ workers' = Moved(w, [NewWorker EXCEPT !.last_sensor = d])
             /\ BagCardinality(workers') = NumWorkers
             /\ d \notin busy'
             /\ signal' = ResultSignal(d, FALSE, signal'.log_attempt_sent,
                                       signal'.fetch_sent)]_vars

\* A session on one sensor has failed while a session on another sensor goes on
\* and has fetched a log.
C5_Witness ==
    \E d \in Sensors :
        /\ FailedResult(d)
        /\ \E w \in Pool : w.pc = "drain" /\ w.success_flag /\ w.last_sensor # d

\* C6: when extract_all_sensors has ended, extract_sensor was invoked for every
\* sensor of the list, in list order.
C6_NoGlobalAbort == seq_pc \in {"done", "raised"} => seq_calls = seq_list

C9_FlagIsOwnFetch ==
    (signal.kind = "result" /\ ~signal.success)
        => (signal.log_attempt_sent <=> signal.fetch_sent)

\* C10: at most SemaphoreWidth workers are inside the semaphore-guarded call,
\* the semaphore counts them, and SemaphoreWidth <= NumWorkers.
C10_SemaphoreBound ==
    /\ Count(InSession) <= SemaphoreWidth
    /\ semaphore = SemaphoreWidth - Count(InSession)
    /\ SemaphoreWidth <= NumWorkers

\* As many sessions as there are sensors run at the same time.
C10_Witness == Count(InSession) = NumSensors /\ NumSensors > 1

\* The workers that wait for convert_sbem on the executor.
Converting == {w \in Pool : w.pc = "convert"}

\* C11: while a worker waits for the conversion of its sensor's files it holds no
\* semaphore permit and does not keep the event loop or the selection lock: every
\* other worker at the top of its loop can select each sensor eligible for it,
\* a worker that waits for a permit can take one, and every session that is
\* going on can take its next step up to its end.
C11_ConversionDoesNotBlock ==
    Converting # {} =>
        /\ semaphore = SemaphoreWidth - Count(InSession)
        /\ Count(InSession) + Count(Converting) <= NumWorkers
        /\ semaphore >= Count(Converting)
        /\ \A v \in Pool : \A i \in Sensors :
               ( /\ v.pc = "select"
                 /\ \A u \in Pool : u.pc # "check"
                 /\ i \in Eligible
                 /\ ~(i = v.last_sensor /\ Cardinality(Eligible) > 1) )
               => ENABLED SelectSensor(v, i)
        /\ \A v \in Pool :
               (v.pc = "check" /\ v.last_sensor \in found_sensor_ids)
               => ENABLED (Check(v) /\ semaphore' = semaphore - 1)
        /\ \A v \in Pool :
               (v.pc = "discover" /\ \A u \in Pool : u.pc # "check")
               => ENABLED BleConnected(v) /\ ENABLED BleNotFound(v)
        /\ \A v \in Pool :
               (v.pc = "drain" /\ \A u \in Pool : u.pc # "check")
               => ENABLED (FetchLog(v) \/ DrainOver(v))

\* While one worker waits for a conversion, the session of another worker on
\* another sensor has fetched a log and ended: its result is the last signal.
C11_Witness ==
    \E w \in Converting :
        /\ signal.kind = "result"
        /\ signal.idx # w.last_sensor
        /\ signal.fetch_sent

\* C12: a conversion that has ended has written exactly the records of its own
\* file, in chunk order, whatever the other conversion did meanwhile.
C12_DecodeStateNotShared ==
    \A t \in DOMAIN conv_pc : conv_pc[t] = "done" => csv[t] = FileRecords(t)

\* n as 4 bytes, least significant first.
LittleEndian32(n) ==
    <<n % 256, (n \div 256) % 256, (n \div 65536) % 256, (n \div 16777216) % 256>>

\* C13: for every log id, once fetch_log is past its command write, it has
\* written to the command channel exactly the bytes 3, 101 and the log id as a
\* little-endian unsigned 32-bit integer.
C13_FetchCommandBytes ==
    cmd_pc \in {"sent", "error"}
        => cmd_written = << <<3, 101>> \o LittleEndian32(cmd_log_id) >>

\* The number of times hello_cmd was written.
HelloCount == Cardinality({k \in 1 .. Len(commands) : commands[k] = <<0, 101>>})

\* C14: when fetch_log takes a notification from the queue, the bytes after its
\* 2 leading bytes are a little-endian u32 offset and a payload: a non-empty
\* payload is in the file at exactly that offset afterwards and the fetch goes
\* on waiting (unless the write raised or the disconnect flag is set); an empty
\* payload leaves the file as it is and ends the fetch as Complete, fetch_log
\* returning True.
C14_NotificationParsed ==
    [][(ble_pc = "wait" /\ queue # <<>> /\ queue' = Tail(queue)) =>
          LET data == Head(inbound)
              off == data[3] + 256 * data[4] + 65536 * data[5] + 16777216 * data[6]
              pay == [k \in 1 .. Len(data) - 6 |-> data[k + 6]]
              end == off + Len(pay)
              Written ==
                  /\ Len(log_file') = IF end > Len(log_file) THEN end ELSE Len(log_file)
                  /\ \A k \in 1 .. Len(log_file') :
                         log_file'[k] = IF k > off /\ k <= end THEN pay[k - off]
                                        ELSE IF k <= Len(log_file) THEN log_file[k]
                                        ELSE 0
          IN  IF pay # <<>>
              THEN \/ /\ Written
                      /\ ~disconnected_event
                      /\ ble_pc' = "wait"
                      /\ UNCHANGED <<outcome, returns, current_log_id>>
                   \/ /\ Written
                      /\ disconnected_event
                      /\ ble_pc' = "loop"
                      /\ outcome' = "Disconnected"
                   \/ /\ ble_pc' = "loop"
                      /\ outcome' = "Error"
              ELSE /\ log_file' = log_file
                   /\ ble_pc' = "loop"
                   /\ outcome' = "Complete"
                   /\ <<"Complete", "True">> \in returns'
                   /\ success_flag']_vars

\* A payload was written at offset 256 and the fetch goes on waiting.
C14_Witness == ble_pc = "wait" /\ Len(log_file) = 258 /\ log_file[257] = 5

\* The positions of the file the payload of the notification data is written to.
WrittenRange(data) ==
    LET off == data[3] + 256 * data[4] + 65536 * data[5] + 16777216 * data[6]
    IN  (off + 1) .. (off + Len(data) - 6)

\* No two different notifications of the log write to the same position.
FragsDisjoint ==
    \A i, j \in 1 .. Len(frags) :
        frags[i] # frags[j] => WrittenRange(frags[i]) \cap WrittenRange(frags[j]) = {}

\* C15 (as stated): whatever the notifications of a log, delivering them in any
\* order and then the end-of-file marker gives the same file as delivering
\* them in the original order.
C15_AnyOrderSameFile ==
    perm_pc = "complete" => file_permuted = file_original

\* C15 (amended): for notifications of which no two different ones write to a
\* common position, delivering them in any order and then the end-of-file
\* marker gives the same file as delivering them in the original order.
C15_DisjointAnyOrderSameFile ==
    (perm_pc = "complete" /\ FragsDisjoint) => file_permuted = file_original

\* Three notifications for different positions, one of them after a gap, were
\* delivered in reverse order.
C15_Witness ==
    /\ perm_pc = "complete"
    /\ FragsDisjoint
    /\ Len(frags) = 3
    /\ order = <<3, 2, 1>>
    /\ frags[1] # frags[3]
    /\ Len(file_permuted) = 258

\* C16: a fetch ends as TimedOut only from a wait in which 10 time units have
\* passed with nothing received, a wait that has lasted 10 units ends in no
\* other way than TimedOut (fetch_log returning False) or a notification, no wait
\* lasts longer, and the wait that follows a received notification starts at 0.
C16_TimeoutBudget ==
    [][/\ (ble_pc = "wait" /\ ble_pc' = "loop" /\ outcome' = "TimedOut")
            => (waited = FetchTimeout /\ queue = <<>>)
       /\ (ble_pc = "wait" /\ waited = FetchTimeout /\ queue = <<>> /\ ble_pc' # "wait")
            => (outcome' = "TimedOut" /\ <<"TimedOut", "False">> \in returns')
       /\ waited' <= FetchTimeout
       /\ (ble_pc = "wait" /\ queue # <<>> /\ queue' = Tail(queue) /\ ble_pc' = "wait")
            => waited' = 0]_vars

\* A fetch has received data and then timed out.
C16_Witness == ble_pc = "loop" /\ outcome = "TimedOut" /\ log_file # <<>>

\* C17: the value fetch_log returns after a transport fault differs from the
\* value it returns after a timeout.
C17_ErrorDistinctFromTimedOut ==
    \A p \in returns : \A q \in returns :
        (p[1] = "Error" /\ q[1] = "TimedOut") => p[2] # q[2]

C20_WaitObservesDisconnect ==
    (ble_pc \notin {"write", "wait"} /\ outcome = "TimedOut") => ~flag_in_wait


(***************************************************************************)
(* The decoder                                                             *)
(***************************************************************************)

\* The bytes left in the stream from position p on.
Rest(p) == Len(sbem) - p

\* C21: readId, called at position p of the stream, reads the byte b at p: when
\* b < 255 the id is b and the position after is p + 1; when b = 255 and 2 more
\* bytes are there, the id is these 2 bytes as a little-endian 16-bit integer and
\* the position after is p + 3; when the stream ends at p, or after 1 or 2 bytes
\* of an escaped id, readId gives no id.
C21_ReadId ==
    last_read # <<>> =>
        LET p == last_read.id_pos
            r == last_read.chunk_id
        IN  /\ Rest(p) = 0 => ~r.ok
            /\ Rest(p) >= 1 /\ sbem[p + 1] < 255 =>
                   r.ok /\ r.value = sbem[p + 1] /\ r.pos = p + 1
            /\ Rest(p) >= 3 /\ sbem[p + 1] = 255 =>
                   r.ok /\ r.value = sbem[p + 2] + 256 * sbem[p + 3] /\ r.pos = p + 3
            /\ Rest(p) \in 1 .. 2 /\ sbem[p + 1] = 255 => ~r.ok

\* readId has read the escaped id 255 in 3 bytes.
C21_Witness ==
    /\ last_read # <<>>
    /\ last_read.chunk_id.ok
    /\ last_read.chunk_id.value = 255
    /\ last_read.chunk_id.pos = last_read.id_pos + 3

\* C22: readLen, called at position p of the stream, reads the byte b at p: when
\* b < 255 the length is b and the position after is p + 1; when b = 255 and 4
\* more bytes are there, the length is these 4 bytes as a little-endian 32-bit
\* integer and the position after is p + 5; when the stream ends at p, or
\* before the 4 bytes of an escaped length are complete, readLen gives no length.
C22_ReadLen ==
    last_read # <<>> /\ last_read.len_called =>
        LET p == last_read.chunk_id.pos
            r == last_read.datasize
        IN  /\ Rest(p) = 0 => ~r.ok
            /\ Rest(p) >= 1 /\ sbem[p + 1] < 255 =>
                   r.ok /\ r.value = sbem[p + 1] /\ r.pos = p + 1
            /\ Rest(p) >= 5 /\ sbem[p + 1] = 255 =>
                   /\ r.ok
                   /\ r.value = sbem[p + 2] + 256 * sbem[p + 3] + 65536 * sbem[p + 4]
                                   + 16777216 * sbem[p + 5]
                   /\ r.pos = p + 5
            /\ Rest(p) \in 1 .. 4 /\ sbem[p + 1] = 255 => ~r.ok

\* readLen has read the escaped length 255 in 5 bytes.
C22_Witness ==
    /\ last_read # <<>>
    /\ last_read.len_called
    /\ last_read.datasize.ok
    /\ last_read.datasize.value = 255
    /\ last_read.datasize.pos = last_read.chunk_id.pos + 5


\* The records of the whole chunks the file was written from, chunk k having
\* index k - 1.
RECURSIVE RecordsOf(_, _)
RecordsOf(chunks, n) ==
    IF n = 0 THEN <<>>
    ELSE RecordsOf(chunks, n - 1)
           \o (IF chunks[n][1] = 0 THEN <<>>
               ELSE parseDataChunk(variant, chunks[n][1], chunks[n][2], n - 1))

\* The last turn of the chunk loop met a malformed chunk: bytes were left at
\* its id, and the id, the length or the payload was cut short.
Malformed ==
    /\ last_read # <<>>
    /\ ~last_read.ok
    /\ Rest(last_read.id_pos) > 0

\* C23: once processSBEM has met a truncated id, a truncated length or a payload
\* shorter than its declared length, it has returned (no error raised), it takes
\* no further step on the file, it has consumed the whole chunks before the
\* malformed one and no chunk more, and what it returned is the records of
\* these chunks, in their order.
C23_MalformedStopsKeepsRecords ==
    Malformed =>
        /\ sbem_pc = "returned"
        /\ ~ENABLED SbemNext
        /\ decoded = src_chunks
        /\ sbem_rows = RecordsOf(src_chunks, Len(src_chunks))

\* processSBEM has returned two records at a payload cut short.
C23_Witness ==
    /\ Malformed
    /\ last_read.read_called
    /\ sbem_pc = "returned"
    /\ Len(sbem_rows) = 2


\* The file is the header and the whole chunks it was written from, and
\* nothing more.
WellFormed == sbem = SbemHeader \o EncodeChunks(src_chunks)

\* C24: a file written as an 8-byte header followed by each (id, payload) chunk,
\* with the one-byte form of the id and of the length for values below 255 and
\* the escaped form otherwise, is decoded by the chunk loop into the same
\* sequence of (id, payload) pairs.
C24_RoundTrip ==
    sbem_pc = "returned" /\ WellFormed => decoded = src_chunks

\* A file of an escaped id and an escaped length has been decoded to its end.
C24_Witness ==
    /\ sbem_pc = "returned"
    /\ WellFormed
    /\ Len(src_chunks) = 2
    /\ src_chunks[1][1] = 65535
    /\ Len(src_chunks[1][2]) = 4
    /\ src_chunks[2][1] = 254
    /\ Len(src_chunks[2][2]) = 255
    /\ Len(decoded) = 2


\* The records of data_chunks that the chunk of index n produced.
IsOfLastChunk(r) == r.chunk_index = sbem_index - 1

RowsOfLastChunk == SelectSeq(sbem_rows, IsOfLastChunk)

\* The last turn of the chunk loop read a whole data chunk.
DataChunkRead ==
    /\ last_read # <<>>
    /\ last_read.ok
    /\ last_read.chunk_id.value # 0

IsGroup(r, g) == "group" \in DOMAIN r /\ r.group = g

\* C25: a data chunk (id not 0) of payload length n produces no record when
\* n < 4 and exactly one when n >= 4: a Motion record for n = 52, an ECG record
\* for n = 68, a HeartRate record (average of 4 bytes, rrInterval the next 2
\* bytes as a little-endian u16) for n = 6, and for any other n >= 4 a Fallback
\* record whose value is the first 4 bytes as a little-endian u32.
C25_DispatchByLength ==
    DataChunkRead =>
        LET n == Len(last_read.chunk_bytes)
            b == last_read.chunk_bytes
            out == RowsOfLastChunk
        IN  /\ n < 4 => out = <<>>
            /\ n >= 4 => Len(out) = 1
            /\ n = 52 => IsGroup(out[1], "IMU")
            /\ n = 68 => IsGroup(out[1], "ECGmV")
            /\ n = 6 =>
                   /\ IsGroup(out[1], "HR")
                   /\ out[1].AVERAGE = SubSeq(b, 1, 4)
                   /\ out[1].RR = b[5] + 256 * b[6]
            /\ n >= 4 /\ n \notin {52, 68, 6} =>
                   /\ DOMAIN out[1] = {"chunk_index", "chunk_id", "value"}
                   /\ out[1].value = b[1] + 256 * b[2] + 65536 * b[3] + 16777216 * b[4]


\* The last turn of the chunk loop read a whole chunk of id 0.
DescriptorRead ==
    /\ last_read # <<>>
    /\ last_read.ok
    /\ last_read.chunk_id.value = 0

\* C26: a chunk of id 0, whatever its length and its bytes, produces no record
\* of data_chunks; the loop goes on at the byte after its payload, so that a
\* file of whole chunks is decoded to its last chunk.
C26_DescriptorNeverDispatched ==
    /\ DescriptorRead =>
           /\ RowsOfLastChunk = <<>>
           /\ sbem_pc = "loop"
           /\ sbem_pos = last_read.datasize.pos + Len(last_read.chunk_bytes)
    /\ sbem_pc = "returned" =>
           /\ Len(decoded) = Len(src_chunks)
           /\ \A r \in 1 .. Len(sbem_rows) :
                  src_chunks[sbem_rows[r].chunk_index + 1][1] # 0

\* A descriptor chunk holding a byte that is not UTF-8, a line feed and the
\* group line "<GRP>10,26" was decoded as text and gave no record, and the data
\* chunk of 52 bytes after it gave its record.
C26_Witness ==
    /\ sbem_pc = "returned"
    /\ Len(decoded) = 2
    /\ decoded[1] = <<0, <<255, 10>> \o GroupText>>
    /\ sbem_groups = <<(<<10, 26>>)>>
    /\ Len(decoded[2][2]) = 52
    /\ Len(sbem_rows) = 1
    /\ sbem_rows[1].chunk_index = 1


\* The decimal digits of a token, and its being a token with a digit.
DecimalDigits(tok) == SelectSeq(tok, IsAsciiDigit)

HasDigit(tok) == DecimalDigits(tok) # <<>>

\* C27: parseGroupLine returns, in the order of the tokens between the commas
\* after the marker, one integer for each token that holds at least one decimal
\* digit, the decimal value of the token's digits with its other characters
\* ignored; a token without a digit gives nothing.
C27_GroupLineTokens ==
    grp_pc = "returned" =>
        LET kept == SelectSeq(grp_tokens, HasDigit)
        IN  /\ Len(token_values) = Len(kept)
            /\ \A k \in 1 .. Len(kept) :
                   token_values[k] = DecimalValue(DecimalDigits(kept[k]))


\* C28: once the caller has received the value of convert_sbem, this value is
\* the path of the CSV file when the file gave at least one record and the
\* write succeeded, and the caller has then taken the branch that renames or
\* keeps the CSV file; in every other case the value is the failure value and
\* the caller has taken the "did not produce a CSV" branch.
C28_ConvertReturnsPath ==
    \A t \in DOMAIN conv_pc :
        conv_pc[t] = "handled" =>
            IF csv[t] # <<>> /\ csv_saved[t]
            THEN csv_path[t] = CsvFilename(t) /\ branch[t] = "renamed or kept"
            ELSE csv_path[t] = NoPath /\ branch[t] = "did not produce a CSV"


C30_OnlyCompleteHanded ==
    ble_pc = "handed" /\ success_flag =>
        \A f \in handed : f.session = "this" /\ f.state = "Complete"


\* C38: processSBEM returns on every file, the empty one and the ones shorter
\* than the header included; every turn of the chunk loop moves at least 2 bytes
\* forward in the file or leaves the loop; and on a file of 8 bytes or less it
\* returns no record, without an error.
C38_ProcessSBEMTerminates ==
    /\ [][sbem_pc = "loop" => (sbem_pos' >= sbem_pos + 2 \/ sbem_pc' = "returned")]_vars
    /\ <>(sbem_pc = "returned")
    /\ [](sbem_pc = "returned" /\ Len(sbem) <= Len(SbemHeader) => sbem_rows = <<>>)

\* processSBEM has returned no record on a file of 5 bytes.
C38_Witness ==
    /\ sbem_pc = "returned"
    /\ Len(sbem) = 5
    /\ sbem_pos = 5
    /\ sbem_rows = <<>>

\* The name of some discovered device ends with the two characters asked for.
C36_NameMatches ==
    \E k \in 1 .. Len(devices) :
        /\ Len(devices[k]) >= 2
        /\ devices[k][Len(devices[k]) - 1] = "4"
        /\ devices[k][Len(devices[k])] = "2"

\* C36: run_ble_client returns True exactly when some fetch_log call of the
\* session ended Complete; when no discovered name ends with the requested
\* ending it returns False on the "else" branch, having put None on the queue,
\* without a connection (no drain loop, no fetch) and without any command, and
\* that branch is taken in no other case.
C36_ReturnsTrueIffComplete ==
    /\ ble_pc \in {"absent", "released"} =>
          (RunBleClientResult <=> \E r \in returns : r[1] = "Complete")
    /\ ble_pc \notin {"idle", "discover"} =>
          (ble_pc = "absent" <=> ~C36_NameMatches)
    /\ ble_pc = "absent" =>
          /\ ~RunBleClientResult
          /\ commands = <<>>
          /\ returns = {}
          /\ raw_folder \subseteq {EarlierFile}
          /\ queue = <<"None">>
          /\ ~ENABLED FetchNext

\* The session is released with True after one fetch timed out and a later one
\* was complete.
C36_Witness ==
    /\ ble_pc = "released"
    /\ RunBleClientResult
    /\ returns = {<<"TimedOut", "False">>, <<"Complete", "True">>}
    /\ devices = <<NoName, <<"M", "1", "4", "2">>>>

\* The fetch commands written so far.
C37_FetchCommands == SelectSeq(commands, LAMBDA c : c # <<0, 101>>)

\* C37: in every step taken while the disconnect flag is set, no fetch command
\* is written: the commands either stay as they are, or grow by hello_cmd, once.
C37_NoFetchAfterDisconnect ==
    [][disconnected_event =>
          /\ C37_FetchCommands' = C37_FetchCommands
          /\ commands' # commands =>
                /\ commands' = Append(commands, <<0, 101>>)
                /\ HelloCount = 0]_vars

\* The flag was set during the fetch of log 1, which counted as one miss under
\* a threshold of 2: log 2 was not asked for, only hello_cmd was written.
C37_Witness ==
    /\ disconnected_event
    /\ miss_limit = 2
    /\ consecutive_misses = 1
    /\ current_log_id = 2
    /\ ble_pc = "grace"
    /\ commands = <<<<3, 101, 1, 0, 0, 0>>, <<0, 101>>>>

\* The workers between the selection of a sensor and the end of their cycle.
C34_WorkersInCycle == {w \in Pool : InCycle(w)}

\* C34: in every state of a scheduler run no index is both busy and completed;
\* the busy set is the set of the sensors the workers are in a cycle on, one
\* worker each, so it has at most NumWorkers elements; the pending set is the
\* set of the indices whose completed flag is false; and in every step a
\* completed flag that is true stays true and the index that is marked busy is
\* one whose flag is false.
C34_SchedulerInvariants ==
    /\ [](\A i \in Sensors : ~(i \in busy /\ completed[i]))
    /\ [](/\ Cardinality(busy) <= NumWorkers
          /\ Cardinality(busy) = Count(C34_WorkersInCycle)
          /\ busy = {w.last_sensor : w \in C34_WorkersInCycle})
    /\ [](pending = {i \in Sensors : ~completed[i]})
    /\ [][\A i \in Sensors :
             /\ completed[i] => completed'[i]
             /\ (i \in busy' /\ i \notin busy) => (~completed[i] /\ ~completed'[i])]_vars

\* Sensor 1 is completed and no longer pending while a worker is in a cycle on
\* sensor 2.
C34_Witness ==
    /\ completed[1]
    /\ ~completed[2]
    /\ pending = {2}
    /\ busy = {2}

\* The workers whose state changes in the step.
C35_Stepping(d) == {w \in Pool : w.last_sensor = d /\ CopiesIn(w, workers') < CopiesIn(w, workers)}

\* C35: the completed flag of a sensor is set, and the sensor leaves pending,
\* exactly by the emit(True, ...) of the worker whose session on it returned
\* True in this cycle: at once when glob finds no file, and else after the
\* conversion, however it ended; a session that ended without success leaves
\* the flags and pending as they were.
C35_CompletedIffSessionSuccess ==
    [][\A d \in Sensors :
          /\ (completed'[d] /\ ~completed[d]) =>
                /\ \E w \in C35_Stepping(d) :
                      \/ w.pc = "convert"
                      \/ w.pc = "drain" /\ w.success_flag /\ signal'.conversion = "no file"
                /\ signal'.kind = "result" /\ signal'.idx = d /\ signal'.success
                /\ d \notin pending'
          /\ (\E w \in C35_Stepping(d) : w.pc = "convert") =>
                /\ completed'[d]
                /\ ~completed[d]
                /\ d \in pending /\ d \notin pending'
                /\ signal'.success
                /\ signal'.conversion \in {"no csv", "raised"}
          /\ (\E w \in C35_Stepping(d) : InSemaphore(w) /\ ~w.success_flag
                                            /\ \A v \in BagToSet(workers') : ~InSemaphore(v)
                                                                              \/ v.last_sensor # d) =>
                /\ completed' = completed
                /\ pending' = pending
                /\ signal'.kind = "result" /\ signal'.idx = d /\ ~signal'.success
          /\ (signal' # signal /\ signal'.kind = "result" /\ signal'.idx = d
                /\ ~signal'.success) =>
                (completed' = completed /\ pending' = pending)]_vars

\* A sensor is completed by a cycle whose conversion raised.
C35_Witness ==
    /\ signal.kind = "result"
    /\ signal.success
    /\ signal.conversion = "raised"
    /\ completed[signal.idx]
    /\ signal.idx \notin pending

\* The sensor a queued signal was emitted for: sensor_list[sensor_index] of the
\* thread that emitted it.
C31_SensorOf(e) == extraction_threads[e.thread].sensor_list[e.idx]

\* C31: when the window handles a signal of a thread, the only table entry
\* whose status changes is the entry of the sensor the thread emitted the signal
\* for, whatever list of sensors on_extract gave the thread.
C31_StatusAppliedToOwnDevice ==
    [][(posted # <<>> /\ posted' = Tail(posted)) =>
          \A i \in Entries :
              sensor_entries'[i] # sensor_entries[i] => i = C31_SensorOf(Head(posted))]_vars

\* The threads that have a session in progress on sensor d.
C32_SessionsOn(d) ==
    {r \in 1 .. Len(extraction_threads) :
        \E w \in TasksOf(extraction_threads[r]) :
            w.pc = "session" /\ extraction_threads[r].sensor_list[w.last_sensor] = d}

\* C32: with two threads running, no sensor has a session in progress in both.
C32_OneSessionAcrossRuns == \A d \in Entries : Cardinality(C32_SessionsOn(d)) <= 1

\* C33: in every step, an entry that shows Completed or Reset keeps its status.
C33_FinalStatusKept ==
    [][\A i \in Entries :
          sensor_entries[i] \in {"Completed", "Reset"} =>
              sensor_entries'[i] = sensor_entries[i]]_vars

====
